---- MODULE Spec2Model ----
(***************************************************************************)
(* Model of the tasker-mcp workflow orchestration: WorkflowIntegration     *)
(* (tools/workflow.js) driving GithubTool and TrelloTool (tools/github.js, *)
(* tools/trello.js).                                                       *)
(*                                                                         *)
(* Strings the code inspects character by character (branch names) and     *)
(* every optional string parameter are sequences of one-character strings. *)
(* A text built by a template literal is the concatenation (\o) of its     *)
(* literal fragments (one element each) and of its interpolated values.    *)
(***************************************************************************)
EXTENDS Integers, Sequences, FiniteSets, TLC

\* ------------------------------------------------------------------ bounds
\* Number of workflow runs that may be in progress on the one
\* WorkflowIntegration instance.
NumRuns == 1
\* Cap on the adapter calls one run may issue (the code issues at most 3).
MaxCalls == 4

Runs == 1..NumRuns

\* ------------------------------------------------------- JavaScript values
\* The value `undefined` of an optional parameter. It differs from every
\* character sequence because its one element is not a single character.
UNDEF == <<"<undefined>">>

\* JavaScript truthiness of an optional string: undefined and "" are falsy.
Truthy(v) == v # UNDEF /\ v # <<>>

\* ${v} inside a template literal.
Interp(v) == IF v = UNDEF THEN <<"undefined">> ELSE v

\* String.prototype.startsWith
StartsWith(s, prefix) ==
    /\ Len(s) >= Len(prefix)
    /\ SubSeq(s, 1, Len(prefix)) = prefix

\* Whether text `t` contains the text `c` as a contiguous part.
Contains(t, c) ==
    \E i \in 1..(Len(t) + 1) :
        /\ i + Len(c) - 1 <= Len(t)
        /\ SubSeq(t, i, i + Len(c) - 1) = c

\* Array.prototype.join over a sequence of texts.
RECURSIVE Join(_, _)
Join(texts, sep) ==
    IF texts = <<>> THEN <<>>
    ELSE IF Len(texts) = 1 THEN texts[1]
    ELSE texts[1] \o sep \o Join(Tail(texts), sep)

\* ------------------------------------------------------------ GithubTool
\* The configured repositories (the built-in configuration of the server).
Repos ==
    << [name |-> "example-repo", repo |-> "owner/repository",
        owner |-> "owner", repoPart |-> "repository", defaultBranch |-> "main"] >>

\* rules.prefixes of validateBranchName
Prefixes ==
    << <<"f","e","a","t","u","r","e","/">>,
       <<"f","i","x","/">>,
       <<"e","n","h","a","n","c","e","m","e","n","t","/">>,
       <<"h","o","t","f","i","x","/">>,
       <<"b","u","g","f","i","x","/">>,
       <<"f","e","a","t","/">>,
       <<"c","h","o","r","e","/">>,
       <<"d","o","c","s","/">>,
       <<"s","t","y","l","e","/">>,
       <<"r","e","f","a","c","t","o","r","/">>,
       <<"t","e","s","t","/">> >>

\* rules.maxLength of validateBranchName
MaxLength == 50

\* The characters matched by /^[a-z0-9\/\-_]+$/i
AllowedChars ==
    { "a","b","c","d","e","f","g","h","i","j","k","l","m",
      "n","o","p","q","r","s","t","u","v","w","x","y","z",
      "A","B","C","D","E","F","G","H","I","J","K","L","M",
      "N","O","P","Q","R","S","T","U","V","W","X","Y","Z",
      "0","1","2","3","4","5","6","7","8","9","/","-","_" }

\* rules.allowedChars.test(branchName): one or more allowed characters.
AllowedCharsTest(s) ==
    /\ Len(s) >= 1
    /\ \A i \in 1..Len(s) : s[i] \in AllowedChars

\* Decimal digits of a non-negative integer, as ${n} renders it.
RECURSIVE Digits(_)
Digits(n) ==
    IF n < 10 THEN << <<"0","1","2","3","4","5","6","7","8","9">>[n + 1] >>
    ELSE Digits(n \div 10) \o Digits(n % 10)

NoVerdictText == <<>>

\* validateBranchName with the length rule rejecting a name of exactly
\* rules.maxLength characters.
validateBranchNameOffByOne(branchName) ==
    IF ~(\E k \in 1..Len(Prefixes) : StartsWith(branchName, Prefixes[k]))
    THEN [isValid |-> FALSE, rule |-> "prefix",
          error |-> <<"Branch name must start with one of: ">>
                    \o Join(Prefixes, <<",", " ">>),
          complianceMessage |-> NoVerdictText]
    ELSE IF Len(branchName) >= MaxLength
    THEN [isValid |-> FALSE, rule |-> "length",
          error |-> <<"Branch name too long (">> \o Digits(Len(branchName))
                    \o <<"/">> \o Digits(MaxLength) \o <<" chars)">>,
          complianceMessage |-> NoVerdictText]
    ELSE IF ~AllowedCharsTest(branchName)
    THEN [isValid |-> FALSE, rule |-> "chars",
          error |-> <<"Branch name contains invalid characters">>,
          complianceMessage |-> NoVerdictText]
    ELSE [isValid |-> TRUE, rule |-> "none",
          error |-> NoVerdictText,
          complianceMessage |-> <<"Branch name follows company Git best practices">>]

\* validateBranchName with the character rule evaluated before the length
\* rule.
validateBranchNameCharsFirst(branchName) ==
    IF ~(\E k \in 1..Len(Prefixes) : StartsWith(branchName, Prefixes[k]))
    THEN [isValid |-> FALSE, rule |-> "prefix",
          error |-> <<"Branch name must start with one of: ">>
                    \o Join(Prefixes, <<",", " ">>),
          complianceMessage |-> NoVerdictText]
    ELSE IF ~AllowedCharsTest(branchName)
    THEN [isValid |-> FALSE, rule |-> "chars",
          error |-> <<"Branch name contains invalid characters">>,
          complianceMessage |-> NoVerdictText]
    ELSE IF Len(branchName) > MaxLength
    THEN [isValid |-> FALSE, rule |-> "length",
          error |-> <<"Branch name too long (">> \o Digits(Len(branchName))
                    \o <<"/">> \o Digits(MaxLength) \o <<" chars)">>,
          complianceMessage |-> NoVerdictText]
    ELSE [isValid |-> TRUE, rule |-> "none",
          error |-> NoVerdictText,
          complianceMessage |-> <<"Branch name follows company Git best practices">>]

\* GithubTool.validateBranchName: prefix, then length, then characters.
validateBranchName(branchName) ==
    IF ~(\E k \in 1..Len(Prefixes) : StartsWith(branchName, Prefixes[k]))
    THEN [isValid |-> FALSE, rule |-> "prefix",
          error |-> <<"Branch name must start with one of: ">>
                    \o Join(Prefixes, <<",", " ">>),
          complianceMessage |-> NoVerdictText]
    ELSE IF Len(branchName) > MaxLength
    THEN [isValid |-> FALSE, rule |-> "length",
          error |-> <<"Branch name too long (">> \o Digits(Len(branchName))
                    \o <<"/">> \o Digits(MaxLength) \o <<" chars)">>,
          complianceMessage |-> NoVerdictText]
    ELSE IF ~AllowedCharsTest(branchName)
    THEN [isValid |-> FALSE, rule |-> "chars",
          error |-> <<"Branch name contains invalid characters">>,
          complianceMessage |-> NoVerdictText]
    ELSE [isValid |-> TRUE, rule |-> "none",
          error |-> NoVerdictText,
          complianceMessage |-> <<"Branch name follows company Git best practices">>]

\* ------------------------------------------------------- remote services
\* The remote services are outside the program. An adapter call is given an
\* oracle `failAt`: the index of the remote request of that call which the
\* service rejects (0: none is rejected).
FailPoints == {0, 1, 2}

\* error.message of a rejected remote request.
RemoteError == <<"<remote error>">>

\* One remote request as the service sees it.
Request(api, target, payload, failAt, index) ==
    [api |-> api, target |-> target, payload |-> payload, ok |-> failAt # index]

\* What an adapter method did: it returned a tool result, or it threw.
Returned(isError, text, remote) ==
    [threw |-> FALSE, isError |-> isError, text |-> text,
     message |-> <<>>, remote |-> remote]

Threw(message, remote) ==
    [threw |-> TRUE, isError |-> TRUE, text |-> <<>>,
     message |-> message, remote |-> remote]

\* GithubTool.listRepositoriesFormatted
listRepositoriesFormatted ==
    Returned(FALSE,
             <<"Configured Repositories:">>
             \o Join([k \in 1..Len(Repos) |->
                        <<Repos[k].name, Repos[k].repo, Repos[k].defaultBranch>>],
                     <<"\n\n">>),
             <<>>)

\* GithubTool.listBranches
listBranches(owner, repo, failAt) ==
    LET req == Request("repos.listBranches", <<owner, repo>>, <<>>, failAt, 1)
    IN  IF ~req.ok THEN Threw(RemoteError, <<req>>)
        ELSE Returned(FALSE, <<"Branches in ", owner, "/", repo>>, <<req>>)

\* createBranch with the base ref looked up before the name is validated.
createBranchValidatesLate(owner, repo, branchName, baseBranch, description, failAt) ==
    LET validation == validateBranchName(branchName)
        baseRef == Request("git.getRef", <<owner, repo>>,
                           <<"heads/", baseBranch>>, failAt, 1)
        newRef == Request("git.createRef", <<owner, repo>>,
                          <<"refs/heads/">> \o branchName \o <<"sha-of:", baseBranch>>,
                          failAt, 2)
    IN  IF ~baseRef.ok THEN Threw(RemoteError, <<baseRef>>)
        ELSE IF ~validation.isValid
        THEN Returned(TRUE,
                      <<"Branch name validation failed: ">> \o validation.error
                      \o <<"Company Rules:", validation.rule>>,
                      <<baseRef>>)
        ELSE IF ~newRef.ok THEN Threw(RemoteError, <<baseRef, newRef>>)
        ELSE Returned(FALSE,
                      <<"Created branch '">> \o branchName
                      \o <<"' from '", baseBranch, "' in ", owner, "/", repo,
                           "Description: ">> \o Interp(description)
                      \o validation.complianceMessage,
                      <<baseRef, newRef>>)

\* createBranch creating the ref whether or not the base ref was found.
createBranchCreatesBlind(owner, repo, branchName, baseBranch, description, failAt) ==
    LET validation == validateBranchName(branchName)
        baseRef == Request("git.getRef", <<owner, repo>>,
                           <<"heads/", baseBranch>>, failAt, 1)
        newRef == Request("git.createRef", <<owner, repo>>,
                          <<"refs/heads/">> \o branchName \o <<"sha-of:", baseBranch>>,
                          failAt, 2)
    IN  IF ~validation.isValid
        THEN Returned(TRUE,
                      <<"Branch name validation failed: ">> \o validation.error
                      \o <<"Company Rules:", validation.rule>>,
                      <<>>)
        ELSE IF ~newRef.ok THEN Threw(RemoteError, <<baseRef, newRef>>)
        ELSE IF ~baseRef.ok THEN Threw(RemoteError, <<baseRef, newRef>>)
        ELSE Returned(FALSE,
                      <<"Created branch '">> \o branchName
                      \o <<"' from '", baseBranch, "' in ", owner, "/", repo,
                           "Description: ">> \o Interp(description)
                      \o validation.complianceMessage,
                      <<baseRef, newRef>>)

\* GithubTool.createBranch: validate, look up the base ref, create the ref.
createBranch(owner, repo, branchName, baseBranch, description, failAt) ==
    LET validation == validateBranchName(branchName)
        baseRef == Request("git.getRef", <<owner, repo>>,
                           <<"heads/", baseBranch>>, failAt, 1)
        newRef == Request("git.createRef", <<owner, repo>>,
                          <<"refs/heads/">> \o branchName \o <<"sha-of:", baseBranch>>,
                          failAt, 2)
    IN  IF ~validation.isValid
        THEN Returned(TRUE,
                      <<"Branch name validation failed: ">> \o validation.error
                      \o <<"Company Rules:", validation.rule>>,
                      <<>>)
        ELSE IF ~baseRef.ok THEN Threw(RemoteError, <<baseRef>>)
        ELSE IF ~newRef.ok THEN Threw(RemoteError, <<baseRef, newRef>>)
        ELSE Returned(FALSE,
                      <<"Created branch '">> \o branchName
                      \o <<"' from '", baseBranch, "' in ", owner, "/", repo,
                           "Description: ">> \o Interp(description)
                      \o validation.complianceMessage,
                      <<baseRef, newRef>>)

\* GithubTool.createPullRequest
createPullRequest(owner, repo, headBranch, baseBranch, title, failAt) ==
    LET pr == Request("pulls.create", <<owner, repo>>,
                      Interp(title) \o <<"head:">> \o headBranch \o <<"base:", baseBranch>>,
                      failAt, 1)
    IN  IF ~pr.ok THEN Threw(RemoteError, <<pr>>)
        ELSE Returned(FALSE,
                      <<"Created PR #", "<number>", ": ", "<html_url>">>
                      \o headBranch \o <<" -> ", baseBranch>>,
                      <<pr>>)

\* GithubTool.listPullRequests
listPullRequests(owner, repo, failAt) ==
    LET req == Request("pulls.list", <<owner, repo>>, <<"open">>, failAt, 1)
    IN  IF ~req.ok THEN Threw(RemoteError, <<req>>)
        ELSE Returned(FALSE, <<"Open Pull Requests in ", owner, "/", repo>>, <<req>>)

\* GithubTool.getFileContent: its own catch turns a failure into a result.
getFileContent(owner, repo, filepath, branch, failAt) ==
    LET req == Request("repos.getContent", <<owner, repo>>,
                       Interp(filepath) \o <<"ref:", branch>>, failAt, 1)
    IN  IF ~req.ok
        THEN Returned(TRUE, <<"File not found: ">> \o Interp(filepath), <<req>>)
        ELSE Returned(FALSE, <<"File: ">> \o Interp(filepath), <<req>>)

\* The one well-formed update document among the inputs; JSON.parse throws on
\* every other input.
ValidUpdateInfo == <<"{", "filepath", "content", "message", "}">>

\* GithubTool.updateFile: JSON.parse is outside its try block.
updateFile(owner, repo, updateInfo, branch, failAt) ==
    LET current == Request("repos.getContent", <<owner, repo>>,
                           <<"filepath", "ref:">> \o branch, failAt, 1)
        update == Request("repos.createOrUpdateFileContents", <<owner, repo>>,
                          <<"filepath", "branch:">> \o branch, failAt, 2)
    IN  IF updateInfo # ValidUpdateInfo
        THEN Threw(<<"<JSON syntax error>">>, <<>>)
        ELSE IF ~current.ok
        THEN Returned(TRUE, <<"Failed to update ", "filepath", ": ">> \o RemoteError,
                      <<current>>)
        ELSE IF ~update.ok
        THEN Returned(TRUE, <<"Failed to update ", "filepath", ": ">> \o RemoteError,
                      <<current, update>>)
        ELSE Returned(FALSE, <<"Updated ", "filepath">>, <<current, update>>)

\* The arguments of GithubTool.run; `action` defaults to 'create_branch'.
GithubArgs(repoName, action, taskBranch, taskDescription) ==
    [repoName |-> repoName, action |-> action,
     taskBranch |-> taskBranch, taskDescription |-> taskDescription]

\* this.repos.find(r => r.name === repoName || r.repo === repoName)
FindRepo(repoName) ==
    LET hits == { k \in 1..Len(Repos) :
                    Repos[k].name = repoName \/ Repos[k].repo = repoName }
    IN  IF hits = {} THEN 0
        ELSE CHOOSE k \in hits : \A j \in hits : k <= j

\* GithubTool.run generating a name with a whitelisted prefix when the caller
\* gives none.
GithubDispatchGeneratesValidName(args, failAt, now) ==
    LET k == FindRepo(args.repoName)
        targetRepo == Repos[k]
        owner == targetRepo.owner
        repo == targetRepo.repoPart
        branchName == IF Truthy(args.taskBranch) THEN args.taskBranch
                      ELSE <<"f","e","a","t","u","r","e","/","t","a","s","k","-">> \o Digits(now)
    IN  IF k = 0
        THEN Threw(<<"Repository '", args.repoName, "' not found. Available repos: ">>
                   \o Join([j \in 1..Len(Repos) |-> <<Repos[j].name>>], <<", ">>),
                   <<>>)
        ELSE CASE args.action = "list_repos" -> listRepositoriesFormatted
               [] args.action = "list_branches" -> listBranches(owner, repo, failAt)
               [] args.action = "create_branch" ->
                    createBranch(owner, repo, branchName, targetRepo.defaultBranch,
                                 args.taskDescription, failAt)
               [] args.action = "create_pr" ->
                    createPullRequest(owner, repo, branchName,
                                      targetRepo.defaultBranch,
                                      args.taskDescription, failAt)
               [] args.action = "list_prs" -> listPullRequests(owner, repo, failAt)
               [] args.action = "get_file" ->
                    getFileContent(owner, repo, args.taskDescription,
                                   targetRepo.defaultBranch, failAt)
               [] args.action = "update_file" ->
                    updateFile(owner, repo, args.taskDescription, branchName, failAt)
               [] OTHER -> Threw(<<"Unknown action: ", args.action>>, <<>>)

\* The switch of GithubTool.run, inside its try block.
GithubDispatch(args, failAt, now) ==
    LET k == FindRepo(args.repoName)
        targetRepo == Repos[k]
        owner == targetRepo.owner
        repo == targetRepo.repoPart
        branchName == IF Truthy(args.taskBranch) THEN args.taskBranch
                      ELSE <<"t","a","s","k","-">> \o Digits(now)
    IN  IF k = 0
        THEN Threw(<<"Repository '", args.repoName, "' not found. Available repos: ">>
                   \o Join([j \in 1..Len(Repos) |-> <<Repos[j].name>>], <<", ">>),
                   <<>>)
        ELSE CASE args.action = "list_repos" -> listRepositoriesFormatted
               [] args.action = "list_branches" -> listBranches(owner, repo, failAt)
               [] args.action = "create_branch" ->
                    createBranch(owner, repo, branchName, targetRepo.defaultBranch,
                                 args.taskDescription, failAt)
               [] args.action = "create_pr" ->
                    createPullRequest(owner, repo, branchName,
                                      targetRepo.defaultBranch,
                                      args.taskDescription, failAt)
               [] args.action = "list_prs" -> listPullRequests(owner, repo, failAt)
               [] args.action = "get_file" ->
                    getFileContent(owner, repo, args.taskDescription,
                                   targetRepo.defaultBranch, failAt)
               [] args.action = "update_file" ->
                    updateFile(owner, repo, args.taskDescription, branchName, failAt)
               [] OTHER -> Threw(<<"Unknown action: ", args.action>>, <<>>)

\* GithubTool.run without its catch block: a throw leaves run.
GithubRunRethrows(args, failAt, now) == GithubDispatch(args, failAt, now)

\* GithubTool.run: its catch block turns every throw into an error result.
GithubRun(args, failAt, now) ==
    LET r == GithubDispatch(args, failAt, now)
    IN  IF r.threw
        THEN Returned(TRUE, <<"Error: ">> \o r.message, r.remote)
        ELSE r

\* ------------------------------------------------------------ TrelloTool
\* The arguments of TrelloTool.run; a field the caller leaves out is UNDEF.
TrelloArgs(action) ==
    [action |-> action, cardId |-> UNDEF, listId |-> UNDEF, boardId |-> UNDEF,
     title |-> UNDEF, description |-> UNDEF, dueDate |-> UNDEF,
     closed |-> UNDEF, comment |-> UNDEF]

\* TrelloTool.listBoards
trelloListBoards(failAt) ==
    LET req == Request("GET /1/members/me/boards", <<>>, <<>>, failAt, 1)
    IN  IF ~req.ok THEN Threw(RemoteError, <<req>>)
        ELSE Returned(FALSE, <<"Trello Boards:">>, <<req>>)

\* TrelloTool.listLists
trelloListLists(boardId, defaults, failAt) ==
    LET targetBoardId == IF Truthy(boardId) THEN boardId ELSE defaults.boardId
        req == Request("GET /1/boards/:id/lists", targetBoardId, <<>>, failAt, 1)
    IN  IF ~Truthy(targetBoardId)
        THEN Threw(<<"Board ID is required. Use list_boards to find board IDs.">>, <<>>)
        ELSE IF ~req.ok THEN Threw(RemoteError, <<req>>)
        ELSE Returned(FALSE, <<"Lists in Board:">>, <<req>>)

\* TrelloTool.createCard
trelloCreateCard(args, defaults, failAt) ==
    LET targetListId == IF Truthy(args.listId) THEN args.listId ELSE defaults.listId
        cardData == [name |-> args.title,
                     desc |-> IF Truthy(args.description) THEN args.description
                              ELSE <<>>,
                     idList |-> targetListId,
                     due |-> IF Truthy(args.dueDate) THEN args.dueDate ELSE UNDEF]
        req == Request("POST /1/cards", <<>>, cardData, failAt, 1)
    IN  IF ~Truthy(targetListId)
        THEN Threw(<<"List ID is required. Use list_lists to find list IDs.">>, <<>>)
        ELSE IF ~req.ok THEN Threw(RemoteError, <<req>>)
        ELSE Returned(FALSE,
                      <<"Trello Card Created Successfully!", "Title: ">>
                      \o Interp(args.title),
                      <<req>>)

\* TrelloTool.listCards
trelloListCards(listId, defaults, failAt) ==
    LET targetListId == IF Truthy(listId) THEN listId ELSE defaults.listId
        req == Request("GET /1/lists/:id/cards", targetListId, <<>>, failAt, 1)
    IN  IF ~Truthy(targetListId)
        THEN Threw(<<"List ID is required. Use list_lists to find list IDs.">>, <<>>)
        ELSE IF ~req.ok THEN Threw(RemoteError, <<req>>)
        ELSE Returned(FALSE, <<"Cards in List:">>, <<req>>)

\* updateCard with the card id checked after the request has been made.
trelloUpdateCardChecksLate(args, failAt) ==
    LET updateData == [name |-> args.title, desc |-> args.description,
                       due |-> args.dueDate, closed |-> args.closed]
        req == Request("PUT /1/cards/:id", args.cardId, updateData, failAt, 1)
    IN  IF ~req.ok THEN Threw(RemoteError, <<req>>)
        ELSE IF ~Truthy(args.cardId)
        THEN Threw(<<"Card ID is required for updating.">>, <<req>>)
        ELSE Returned(FALSE, <<"Card Updated Successfully!">>, <<req>>)

\* TrelloTool.updateCard
trelloUpdateCard(args, failAt) ==
    LET updateData == [name |-> args.title, desc |-> args.description,
                       due |-> args.dueDate, closed |-> args.closed]
        req == Request("PUT /1/cards/:id", args.cardId, updateData, failAt, 1)
    IN  IF ~Truthy(args.cardId)
        THEN Threw(<<"Card ID is required for updating.">>, <<>>)
        ELSE IF ~req.ok THEN Threw(RemoteError, <<req>>)
        ELSE Returned(FALSE, <<"Card Updated Successfully!">>, <<req>>)

\* TrelloTool.moveCard
trelloMoveCard(args, failAt) ==
    LET req == Request("PUT /1/cards/:id", args.cardId,
                       [idList |-> args.listId], failAt, 1)
    IN  IF ~Truthy(args.cardId) \/ ~Truthy(args.listId)
        THEN Threw(<<"Both Card ID and List ID are required for moving.">>, <<>>)
        ELSE IF ~req.ok THEN Threw(RemoteError, <<req>>)
        ELSE Returned(FALSE, <<"Card Moved Successfully!">>, <<req>>)

\* TrelloTool.addComment
trelloAddComment(args, failAt) ==
    LET req == Request("POST /1/cards/:id/actions/comments", args.cardId,
                       [text |-> args.comment], failAt, 1)
    IN  IF ~Truthy(args.cardId) \/ ~Truthy(args.comment)
        THEN Threw(<<"Both Card ID and comment text are required.">>, <<>>)
        ELSE IF ~req.ok THEN Threw(RemoteError, <<req>>)
        ELSE Returned(FALSE, <<"Comment Added Successfully!">>, <<req>>)

\* The switch of TrelloTool.run, inside its try block.
TrelloDispatch(args, defaults, failAt) ==
    CASE args.action = "list_boards" -> trelloListBoards(failAt)
      [] args.action = "list_lists" -> trelloListLists(args.boardId, defaults, failAt)
      [] args.action = "create_card" -> trelloCreateCard(args, defaults, failAt)
      [] args.action = "list_cards" -> trelloListCards(args.listId, defaults, failAt)
      [] args.action = "update_card" -> trelloUpdateCard(args, failAt)
      [] args.action = "move_card" -> trelloMoveCard(args, failAt)
      [] args.action = "add_comment" -> trelloAddComment(args, failAt)
      [] OTHER -> Threw(<<"Unknown Trello action: ", args.action>>, <<>>)

\* TrelloTool.run: its catch block rethrows every failure with a prefix.
TrelloRun(args, defaults, failAt) ==
    LET r == TrelloDispatch(args, defaults, failAt)
    IN  IF r.threw
        THEN Threw(<<"Trello operation failed: ">> \o r.message, r.remote)
        ELSE r

\* ---------------------------------------------------- WorkflowIntegration
WorkflowKinds == {"createTaskWithCard", "createPRAndUpdateCard", "completeTask"}

\* The parameter object of a workflow method; a property the caller leaves
\* out is UNDEF (deleteBranch defaults to false).
WorkflowParams(repoName, branchName, trelloListId, cardId, reviewListId, deleteBranch) ==
    [repoName |-> repoName, branchName |-> branchName,
     taskTitle |-> <<"Add login">>, taskDescription |-> <<"Login form">>,
     trelloListId |-> trelloListId, dueDate |-> UNDEF,
     prTitle |-> <<"Add login">>, prDescription |-> UNDEF,
     cardId |-> cardId, reviewListId |-> reviewListId,
     deleteBranch |-> deleteBranch]

\* The first awaited adapter call of each workflow method.
FirstStepCommentFirst(wf) ==
    CASE wf = "createTaskWithCard" -> "create_branch"
      [] wf = "createPRAndUpdateCard" -> "create_pr"
      [] wf = "completeTask" -> "add_comment"

\* FirstStep with completeTask opening on a version-control call.
FirstStepTouchesRepository(wf) ==
    CASE wf = "createTaskWithCard" -> "create_branch"
      [] wf = "createPRAndUpdateCard" -> "create_pr"
      [] wf = "completeTask" -> "create_pr"

FirstStep(wf) ==
    CASE wf = "createTaskWithCard" -> "create_branch"
      [] wf = "createPRAndUpdateCard" -> "create_pr"
      [] wf = "completeTask" -> "update_card"

\* if (cardId && reviewListId) of createPRAndUpdateCard
ReviewGateOnlyCard(cardId, reviewListId) == Truthy(cardId)

ReviewGate(cardId, reviewListId) == Truthy(cardId) /\ Truthy(reviewListId)

\* The statement that follows the push of step s's entry: the next awaited
\* adapter call, or "return" for the return of the success outcome.
StepAfterCommentOutsideIf(wf, s, p) ==
    CASE wf = "createTaskWithCard" /\ s = "create_branch" -> "create_card"
      [] wf = "createPRAndUpdateCard" /\ s = "create_pr" ->
            IF ReviewGate(p.cardId, p.reviewListId) THEN "move_card"
            ELSE "add_comment"
      [] wf = "createPRAndUpdateCard" /\ s = "move_card" -> "add_comment"
      [] wf = "completeTask" /\ s = "update_card" -> "add_comment"
      [] OTHER -> "return"

\* StepAfter with the comment step followed by the comment step again.
StepAfterRepeatsComment(wf, s, p) ==
    CASE wf = "createTaskWithCard" /\ s = "create_branch" -> "create_card"
      [] wf = "createPRAndUpdateCard" /\ s = "create_pr" ->
            IF ReviewGate(p.cardId, p.reviewListId) THEN "move_card" ELSE "return"
      [] wf = "createPRAndUpdateCard" /\ s = "move_card" -> "add_comment"
      [] wf = "completeTask" /\ s = "update_card" -> "add_comment"
      [] s = "add_comment" -> "add_comment"
      [] OTHER -> "return"

StepAfter(wf, s, p) ==
    CASE wf = "createTaskWithCard" /\ s = "create_branch" -> "create_card"
      [] wf = "createPRAndUpdateCard" /\ s = "create_pr" ->
            IF ReviewGate(p.cardId, p.reviewListId) THEN "move_card" ELSE "return"
      [] wf = "createPRAndUpdateCard" /\ s = "move_card" -> "add_comment"
      [] wf = "completeTask" /\ s = "update_card" -> "add_comment"
      [] OTHER -> "return"

\* Where a throw of step s's awaited call continues: the catch block of the
\* method, which returns the failure outcome.
StepAfterThrowRetry(wf, s, p) == s

StepAfterThrow(wf, s, p) == "return"

\* Which adapter a step calls: this.github.run or this.trello.run.
StepTool(wf, s) ==
    IF s \in {"create_branch", "create_pr"} THEN "github" ELSE "trello"

\* The argument object a step passes to the adapter's run.
StepArgs(wf, s, p) ==
    CASE s = "create_branch" ->
            GithubArgs(p.repoName, "create_branch", p.branchName, p.taskTitle)
      [] s = "create_card" ->
            [TrelloArgs("create_card") EXCEPT
                !.title = p.taskTitle,
                !.description = Interp(p.taskDescription)
                                \o <<"GitHub Branch: ">> \o Interp(p.branchName)
                                \o <<"Repository: ", p.repoName>>,
                !.listId = p.trelloListId,
                !.dueDate = p.dueDate]
      [] s = "create_pr" ->
            GithubArgs(p.repoName, "create_pr", p.branchName, p.prTitle)
      [] s = "move_card" ->
            [TrelloArgs("move_card") EXCEPT
                !.cardId = p.cardId, !.listId = p.reviewListId]
      [] s = "add_comment" /\ wf = "createPRAndUpdateCard" ->
            [TrelloArgs("add_comment") EXCEPT
                !.cardId = p.cardId,
                !.comment = <<"Pull Request Created!", "Title: ">> \o Interp(p.prTitle)
                            \o <<"Branch: ">> \o Interp(p.branchName)
                            \o <<"Repository: ", p.repoName>>]
      [] s = "update_card" ->
            [TrelloArgs("update_card") EXCEPT
                !.cardId = p.cardId, !.closed = <<"true">>]
      [] s = "add_comment" /\ wf = "completeTask" ->
            [TrelloArgs("add_comment") EXCEPT
                !.cardId = p.cardId,
                !.comment = <<"Task Completed!", "Repository: ", p.repoName,
                              "Branch: ">> \o Interp(p.branchName)]

\* The `action` tag of the entry a step pushes.
EntryActionSwapped(wf, s) ==
    CASE s = "create_branch" -> "card_created"
      [] s = "create_card" -> "branch_created"
      [] s = "create_pr" -> "pr_created"
      [] s = "move_card" -> "card_moved"
      [] s = "add_comment" /\ wf = "createPRAndUpdateCard" -> "comment_added"
      [] s = "update_card" -> "card_completed"
      [] s = "add_comment" /\ wf = "completeTask" -> "completion_comment_added"

EntryAction(wf, s) ==
    CASE s = "create_branch" -> "branch_created"
      [] s = "create_card" -> "card_created"
      [] s = "create_pr" -> "pr_created"
      [] s = "move_card" -> "card_moved"
      [] s = "add_comment" /\ wf = "createPRAndUpdateCard" -> "comment_added"
      [] s = "update_card" -> "card_completed"
      [] s = "add_comment" /\ wf = "completeTask" -> "completion_comment_added"

\* results.push({ type, action, result }) after a step's call has returned.
LedgerEntry(wf, s, reply) ==
    [type |-> StepTool(wf, s), action |-> EntryAction(wf, s),
     result |-> [isError |-> reply.isError, text |-> reply.text]]

\* The success outcome each method returns after its last step.
SuccessMessage(wf) ==
    CASE wf = "createTaskWithCard" -> <<"Task workflow completed successfully!">>
      [] wf = "createPRAndUpdateCard" -> <<"PR workflow completed successfully!">>
      [] wf = "completeTask" -> <<"Task completion workflow finished!">>

SuccessOutcome(wf, ledger) ==
    [success |-> TRUE, message |-> SuccessMessage(wf), results |-> ledger]

\* The outcome the catch block of each method returns.
FailurePrefix(wf) ==
    CASE wf = "createTaskWithCard" -> <<"Workflow failed: ">>
      [] wf = "createPRAndUpdateCard" -> <<"PR workflow failed: ">>
      [] wf = "completeTask" -> <<"Completion workflow failed: ">>

CatchOutcomeDropsLedger(wf, message, ledger) ==
    [success |-> FALSE, message |-> FailurePrefix(wf) \o message, results |-> <<>>]

CatchOutcome(wf, message, ledger) ==
    [success |-> FALSE, message |-> FailurePrefix(wf) \o message, results |-> ledger]

\* ------------------------------------------------------------------ inputs
GoodBranch == <<"f","e","a","t","u","r","e","/","l","o","g","i","n","-","f","i","x">>
BadPrefixBranch == <<"x","y","z","-","t","h","i","n","g">>

RepoNames == {"example-repo", "unknown-repo"}
BranchNames == {GoodBranch, BadPrefixBranch, UNDEF}
ListIds == {UNDEF, <<"l","1">>}
CardIds == {UNDEF, <<>>, <<"c","1">>}

\* Values Date.now() may return.
Timestamps == {7, 42}

\* The parameter objects a caller may pass to each workflow method.
ParamsFor(wf) ==
    CASE wf = "createTaskWithCard" ->
            { WorkflowParams(rn, bn, tl, UNDEF, UNDEF, FALSE) :
                rn \in RepoNames, bn \in BranchNames, tl \in ListIds }
      [] wf = "createPRAndUpdateCard" ->
            { WorkflowParams(rn, bn, UNDEF, c, rl, FALSE) :
                rn \in RepoNames, bn \in BranchNames, c \in CardIds, rl \in ListIds }
      [] wf = "completeTask" ->
            { WorkflowParams(rn, bn, UNDEF, c, UNDEF, d) :
                rn \in RepoNames, bn \in BranchNames, c \in CardIds, d \in BOOLEAN }

\* The default board and list of the TrelloTool (TRELLO_BOARD_ID and
\* TRELLO_LIST_ID at construction): both set or both unset.
TrelloConfigs ==
    { [boardId |-> UNDEF, listId |-> UNDEF],
      [boardId |-> <<"b","0">>, listId |-> <<"l","0">>] }

\* ------------------------------------------------------------ the server
\* The repository list the server falls back to.
DefaultRepositories ==
    [k \in 1..Len(Repos) |->
        [name |-> Repos[k].name, repo |-> Repos[k].repo,
         defaultBranch |-> Repos[k].defaultBranch]]

\* The repository objects a configuration text may hold, by their token.
RepoOfToken(token) ==
    CASE token = "api" ->
            [name |-> "api", repo |-> "company/api-service", defaultBranch |-> "master"]
      [] token = "web" ->
            [name |-> "web", repo |-> "company/web-app", defaultBranch |-> "develop"]

RepoTokens == {"api", "web"}

\* A text is the JSON of an array of repository objects: "[", items, "]".
IsArrayText(t) ==
    /\ Len(t) >= 2
    /\ t[1] = "["
    /\ t[Len(t)] = "]"
    /\ \A i \in 2..(Len(t) - 1) : t[i] \in RepoTokens

ArrayOfText(t) == [i \in 1..(Len(t) - 2) |-> RepoOfToken(t[i + 1])]

\* A text is the JSON of an object: "{" "}" or "{" "repositories:" array "}".
IsObjectText(t) ==
    /\ Len(t) >= 2
    /\ t[1] = "{"
    /\ t[Len(t)] = "}"
    /\ \/ Len(t) = 2
       \/ /\ Len(t) >= 5
          /\ t[2] = "repositories:"
          /\ IsArrayText(SubSeq(t, 3, Len(t) - 1))

\* A value returned to the loader: an array of repository objects, or
\* `undefined`.
ArrayValue(items) == [defined |-> TRUE, items |-> items]
UndefinedValue == [defined |-> FALSE, items |-> <<>>]

\* JSON.parse: the value of a well-formed text, a SyntaxError otherwise. An
\* object is given by its property `repositories`.
JsonParse(t) ==
    IF IsArrayText(t)
    THEN [threw |-> FALSE, isArray |-> TRUE, value |-> ArrayValue(ArrayOfText(t))]
    ELSE IF IsObjectText(t)
    THEN [threw |-> FALSE, isArray |-> FALSE,
          value |-> IF Len(t) = 2 THEN UndefinedValue
                    ELSE ArrayValue(ArrayOfText(SubSeq(t, 3, Len(t) - 1)))]
    ELSE [threw |-> TRUE, isArray |-> FALSE, value |-> UndefinedValue]

\* config.repositories of the parsed file: an array has no such property.
RepositoriesOf(config) ==
    IF config.isArray THEN UndefinedValue ELSE config.value

\* What the try block of loadRepositories does with the config file first.
LoadTryFileFirst(env) ==
    IF env.configFile.exists
    THEN IF ~env.configFile.readable
         THEN [threw |-> TRUE, value |-> UndefinedValue]
         ELSE LET config == JsonParse(env.configFile.content)
              IN  [threw |-> config.threw, value |-> RepositoriesOf(config)]
    ELSE IF Truthy(env.githubRepos)
    THEN LET parsed == JsonParse(env.githubRepos)
         IN  [threw |-> parsed.threw, value |-> parsed.value]
    ELSE [threw |-> FALSE, value |-> ArrayValue(DefaultRepositories)]

\* The try block of loadRepositories: GITHUB_REPOS, then config/repos.json,
\* then the built-in list; JSON.parse and readFileSync may throw.
LoadTry(env) ==
    IF Truthy(env.githubRepos)
    THEN LET parsed == JsonParse(env.githubRepos)
         IN  [threw |-> parsed.threw, value |-> parsed.value]
    ELSE IF env.configFile.exists
    THEN IF ~env.configFile.readable
         THEN [threw |-> TRUE, value |-> UndefinedValue]
         ELSE LET config == JsonParse(env.configFile.content)
              IN  [threw |-> config.threw, value |-> RepositoriesOf(config)]
    ELSE [threw |-> FALSE, value |-> ArrayValue(DefaultRepositories)]

\* loadRepositories: its catch block returns the built-in list.
loadRepositories(env) ==
    LET r == LoadTry(env)
    IN  IF r.threw THEN [threw |-> FALSE, value |-> ArrayValue(DefaultRepositories)]
        ELSE r

\* TrelloAvailable with the API key as the only credential looked at.
TrelloAvailableWithKeyOnly(env) == Truthy(env.trelloApiKey)

\* if (process.env.TRELLO_API_KEY && process.env.TRELLO_TOKEN): trelloTool
\* and workflowTool are created together, or both stay null.
TrelloAvailable(env) == Truthy(env.trelloApiKey) /\ Truthy(env.trelloToken)

\* The values of GITHUB_REPOS: unset, empty, arrays, and an unparsable text.
GithubReposValues ==
    { UNDEF, <<>>, <<"[", "api", "]">>, <<"[", "api", "web", "]">>,
      <<"[", "]">>, <<"[", "api">> }

\* The states of config/repos.json: absent, unreadable, with and without a
\* `repositories` property, and unparsable.
NoFile == [exists |-> FALSE, readable |-> FALSE, content |-> <<>>]

ConfigFiles ==
    { NoFile,
      [exists |-> TRUE, readable |-> FALSE, content |-> <<>>] }
    \cup { [exists |-> TRUE, readable |-> TRUE, content |-> c] :
             c \in { <<"{", "repositories:", "[", "web", "]", "}">>,
                     <<"{", "repositories:", "[", "]", "}">>,
                     <<"{", "}">>,
                     <<"{", "repositories:", "[", "web", "}">> } }

\* TRELLO_API_KEY and TRELLO_TOKEN: each unset or set.
TrelloCredentials ==
    { [key |-> k, token |-> t] :
        k \in {UNDEF, <<"k","1">>}, t \in {UNDEF, <<"t","1">>} }

Environments ==
    { [githubRepos |-> g, configFile |-> f,
       trelloApiKey |-> c.key, trelloToken |-> c.token] :
        g \in GithubReposValues, f \in ConfigFiles, c \in TrelloCredentials }

\* No repository configuration, and both Trello credentials.
BuiltInEnvironment ==
    [githubRepos |-> UNDEF, configFile |-> NoFile,
     trelloApiKey |-> <<"k","1">>, trelloToken |-> <<"t","1">>]

\* ------------------------------------------------------------------- state
VARIABLES
    trelloDefaults, \* defaultBoardId and defaultListId of the TrelloTool
    kind,           \* per run: the workflow method called, "none" before
    params,         \* per run: the parameter object of the call
    pc,             \* per run: "idle", "invoke", "await" or "done"
    step,           \* per run: the step the run is at
    results,        \* per run: the local array `results` (the ledger)
    calls,          \* per run: the adapter calls issued so far, in order
    outcome,        \* per run: the value the method returned
    candidate,      \* the branch name handed to validateBranchName
    verdict,        \* the object validateBranchName returned for it
    request,        \* the argument object of a direct GithubTool.run call
    response,       \* what that call returned
    environment,    \* process.env and the config file, as the server reads them
    repositories,   \* the module constant `repositories` of the server
    crossing        \* per run: the calls of other runs seen between its own

vars == <<trelloDefaults, kind, params, pc, step, results, calls, outcome,
          candidate, verdict, request, response, environment, repositories,
          crossing>>

\* The variables of the validator, of the direct tool call and of the server.
toolVars == <<candidate, verdict, request, response, environment, repositories>>

NoParams == WorkflowParams("", UNDEF, UNDEF, UNDEF, UNDEF, FALSE)
NoOutcome == [success |-> FALSE, message |-> <<>>, results |-> <<>>]
NoReply == Returned(FALSE, <<>>, <<>>)
NoVerdict == [isValid |-> FALSE, rule |-> "pending", error |-> NoVerdictText,
              complianceMessage |-> NoVerdictText]
NoRequest == GithubArgs("", "none", UNDEF, UNDEF)
NoResponse == [settled |-> FALSE, reply |-> NoReply]
NoCrossing == [since |-> {}, crossed |-> FALSE]
NotLoaded == [loaded |-> FALSE, value |-> UndefinedValue]
Loaded(items) == [loaded |-> TRUE, value |-> ArrayValue(items)]

\* No workflow method has been called yet on the runs R.
WorkflowIdle(R) ==
    /\ trelloDefaults \in TrelloConfigs
    /\ kind = [r \in R |-> "none"]
    /\ params = [r \in R |-> NoParams]
    /\ pc = [r \in R |-> "idle"]
    /\ step = [r \in R |-> "none"]
    /\ results = [r \in R |-> <<>>]
    /\ calls = [r \in R |-> <<>>]
    /\ outcome = [r \in R |-> NoOutcome]
    /\ crossing = [r \in R |-> NoCrossing]

\* No branch name is being validated, no direct tool call is made, and the
\* server has started with the built-in repository list.
ToolsIdle ==
    /\ candidate = UNDEF
    /\ verdict = NoVerdict
    /\ request = NoRequest
    /\ response = NoResponse
    /\ environment = BuiltInEnvironment
    /\ repositories = Loaded(DefaultRepositories)

Init ==
    /\ WorkflowIdle(Runs)
    /\ ToolsIdle

\* await this.github.run(args) / await this.trello.run(args)
AdapterCall(tool, args, defaults, failAt, now) ==
    IF tool = "github" THEN GithubRun(args, failAt, now)
    ELSE TrelloRun(args, defaults, failAt)

\* The run's position once step s's call has been issued: suspended on its
\* await until the call settles.
AfterInvokeNoAwait(wf, s, p) ==
    IF StepAfter(wf, s, p) = "return" THEN [pc |-> "await", step |-> s]
    ELSE [pc |-> "invoke", step |-> StepAfter(wf, s, p)]

AfterInvoke(wf, s, p) == [pc |-> "await", step |-> s]

\* `const results = []`: the ledger of an invocation starts empty, whatever
\* the ledgers `all` of the other invocations hold.
\* A run issues its adapter call whatever the positions of the other runs
\* are: no lock, queue or transaction stands before a call.
MayIssueWhenNoneInFlight(positions, r) ==
    \A q \in DOMAIN positions \ {r} : positions[q] # "await"

MayIssue(positions, r) == TRUE

FreshLedgerKept(all, r) == all[1]

FreshLedger(all, r) == <<>>

\* The array a run pushes to: the `results` of its own invocation.
OwnLedgerShared(all, r) == all[1]

OwnLedger(all, r) == all[r]

\* A caller invokes one of the three workflow methods: `const results = []`.
Start(r) ==
    /\ pc[r] = "idle"
    /\ \E wf \in WorkflowKinds : \E p \in ParamsFor(wf) :
        /\ kind' = [kind EXCEPT ![r] = wf]
        /\ params' = [params EXCEPT ![r] = p]
        /\ step' = [step EXCEPT ![r] = FirstStep(wf)]
    /\ pc' = [pc EXCEPT ![r] = "invoke"]
    /\ results' = [results EXCEPT ![r] = FreshLedger(results, r)]
    /\ UNCHANGED <<trelloDefaults, calls, outcome, toolVars>>

\* The run issues the adapter call of its current step.
Invoke(r) ==
    /\ pc[r] = "invoke"
    /\ Len(calls[r]) < MaxCalls
    /\ MayIssue(pc, r)
    /\ LET wf == kind[r]
           s == step[r]
           next == AfterInvoke(wf, s, params[r])
       IN  /\ calls' = [calls EXCEPT ![r] = Append(@,
                  [tool |-> StepTool(wf, s), step |-> s,
                   args |-> StepArgs(wf, s, params[r]),
                   status |-> "inflight", reply |-> NoReply])]
           /\ pc' = [pc EXCEPT ![r] = next.pc]
           /\ step' = [step EXCEPT ![r] = next.step]
    /\ UNCHANGED <<trelloDefaults, kind, params, results, outcome, toolVars>>

\* The awaited call settles and the method runs on to its next await or to
\* its return: push the entry and go on, or enter the catch block.
Return(r) ==
    /\ pc[r] = "await"
    /\ \E failAt \in FailPoints, now \in Timestamps :
        LET wf == kind[r]
            s == step[r]
            n == Len(calls[r])
            reply == AdapterCall(calls[r][n].tool, calls[r][n].args,
                                 trelloDefaults, failAt, now)
            ledger == IF reply.threw THEN OwnLedger(results, r)
                      ELSE Append(OwnLedger(results, r), LedgerEntry(wf, s, reply))
            next == IF reply.threw THEN StepAfterThrow(wf, s, params[r])
                    ELSE StepAfter(wf, s, params[r])
        IN  /\ calls' = [calls EXCEPT ![r][n].status =
                            IF reply.threw THEN "threw" ELSE "returned",
                         ![r][n].reply = reply]
            /\ results' = [results EXCEPT ![r] = ledger]
            /\ IF next = "return"
               THEN /\ pc' = [pc EXCEPT ![r] = "done"]
                    /\ outcome' = [outcome EXCEPT ![r] =
                          IF reply.threw
                          THEN CatchOutcome(wf, reply.message, ledger)
                          ELSE SuccessOutcome(wf, ledger)]
                    /\ UNCHANGED step
               ELSE /\ pc' = [pc EXCEPT ![r] = "invoke"]
                    /\ step' = [step EXCEPT ![r] = next]
                    /\ UNCHANGED outcome
    /\ UNCHANGED <<trelloDefaults, kind, params, toolVars>>

Next ==
    \E r \in Runs :
        \/ Start(r) /\ UNCHANGED crossing
        \/ Invoke(r) /\ UNCHANGED crossing
        \/ Return(r) /\ UNCHANGED crossing

Spec == Init /\ [][Next]_vars

TypeOK ==
    /\ trelloDefaults \in TrelloConfigs
    /\ \A r \in Runs :
        /\ kind[r] \in WorkflowKinds \cup {"none"}
        /\ pc[r] \in {"idle", "invoke", "await", "done"}
        /\ Len(results[r]) <= Len(calls[r])

\* ------------------------------------------------------------ observations
Done(r) == pc[r] = "done"

\* The adapter operation of call c completed successfully.
CallOk(c) == c.status = "returned" /\ ~c.reply.isError

\* The adapter operation of call c failed: it threw, or it reported an error.
CallFailed(c) ==
    \/ c.status = "threw"
    \/ c.status = "returned" /\ c.reply.isError

\* The cause inside the error text GithubTool.run returned.
GithubFailureCause(reply) ==
    IF Head(reply.text) = "Error: " THEN Tail(reply.text)
    ELSE SubSeq(reply.text, 2, Len(reply.text) - 2)

\* The type and action tags of a ledger, in order.
Tags(ledger) == [i \in 1..Len(ledger) |-> <<ledger[i].type, ledger[i].action>>]

\* The tags of the entries the successful calls of run r stand for, in order.
SuccessfulTags(r) ==
    LET ok == SelectSeq(calls[r], CallOk)
    IN  [i \in 1..Len(ok) |-> <<ok[i].tool, EntryAction(kind[r], ok[i].step)>>]

\* The calls of run r for step s.
CallsOf(r, s) == { i \in 1..Len(calls[r]) : calls[r][i].step = s }

\* All remote requests run r has caused, in order.
RECURSIVE RemoteOf(_)
RemoteOf(cs) ==
    IF cs = <<>> THEN <<>> ELSE cs[1].reply.remote \o RemoteOf(Tail(cs))

\* The steps each workflow is specified to require.
RequiredSteps(wf) ==
    CASE wf = "createTaskWithCard" -> {"create_branch", "create_card"}
      [] wf = "createPRAndUpdateCard" -> {"create_pr"}
      [] wf = "completeTask" -> {"update_card", "add_comment"}
      [] OTHER -> {}

\* The adapter operations each workflow is specified to use.
ForwardSteps(wf) ==
    CASE wf = "createTaskWithCard" -> {"create_branch", "create_card"}
      [] wf = "createPRAndUpdateCard" -> {"create_pr", "move_card", "add_comment"}
      [] wf = "completeTask" -> {"update_card", "add_comment"}
      [] OTHER -> {}

\* The remote requests that create or change, and never delete or reopen.
ForwardApis ==
    {"git.getRef", "git.createRef", "pulls.create", "POST /1/cards",
     "PUT /1/cards/:id", "POST /1/cards/:id/actions/comments"}

\* ------------------------------------------------------------------ claims

\* C1: in every finished createTaskWithCard run whose branch creation failed,
\* the outcome has success = false, an empty ledger and a message that
\* contains the cause of the failure.
C1_BranchFailureAborts ==
    \A r \in Runs :
        (/\ Done(r)
         /\ kind[r] = "createTaskWithCard"
         /\ CallFailed(calls[r][1]))
        => /\ outcome[r].success = FALSE
           /\ outcome[r].results = <<>>
           /\ Contains(outcome[r].message, GithubFailureCause(calls[r][1].reply))

\* C2: the ledger of every returned outcome holds exactly the entries of the
\* steps whose adapter operation completed successfully, in execution order.
C2_LedgerOnlySuccessfulSteps ==
    \A r \in Runs :
        Done(r) =>
            /\ Tags(outcome[r].results) = SuccessfulTags(r)
            /\ \A i \in 1..Len(outcome[r].results) :
                  ~outcome[r].results[i].result.isError

\* C3: success = true exactly when every required step of the workflow was
\* executed successfully and has its ledger entry.
C3_SuccessIffRequiredSteps ==
    \A r \in Runs :
        Done(r) =>
            (outcome[r].success
             <=> \A s \in RequiredSteps(kind[r]) :
                    /\ \E i \in CallsOf(r, s) : CallOk(calls[r][i])
                    /\ \E j \in 1..Len(outcome[r].results) :
                          outcome[r].results[j].action = EntryAction(kind[r], s))

\* C4: once a step's operation has failed, the run invokes no further adapter
\* operation: only the last call of a run can be a failed one.
C4_FirstFailureTerminal ==
    \A r \in Runs :
        \A i \in 1..Len(calls[r]) :
            CallFailed(calls[r][i]) => i = Len(calls[r])

\* C5: a createTaskWithCard run whose branch creation succeeded and whose card
\* creation failed returns success = false with the one entry
\* github/branch_created; it made no call besides the two steps and no remote
\* request after the creation of the ref except the card request.
C5_CardFailureKeepsBranch ==
    \A r \in Runs :
        (/\ Done(r)
         /\ kind[r] = "createTaskWithCard"
         /\ Len(calls[r]) >= 2
         /\ CallOk(calls[r][1])
         /\ CallFailed(calls[r][2]))
        => /\ outcome[r].success = FALSE
           /\ Tags(outcome[r].results) = << <<"github", "branch_created">> >>
           /\ Len(calls[r]) = 2
           /\ calls[r][1].step = "create_branch"
           /\ calls[r][2].step = "create_card"
           /\ \A k \in 1..Len(RemoteOf(calls[r])) :
                 RemoteOf(calls[r])[k].api \in ForwardApis
           /\ \E k \in 1..Len(RemoteOf(calls[r])) :
                 /\ RemoteOf(calls[r])[k].api = "git.createRef"
                 /\ RemoteOf(calls[r])[k].ok

C5_Witness ==
    \E r \in Runs :
        /\ Done(r)
        /\ kind[r] = "createTaskWithCard"
        /\ Len(calls[r]) = 2
        /\ CallOk(calls[r][1])
        /\ calls[r][2].status = "threw"
        /\ Len(calls[r][2].reply.remote) = 1

\* C6: a createTaskWithCard run whose branch creation and card creation both
\* succeeded returns success = true with exactly the entries
\* github/branch_created, trello/card_created, in this order.
C6_BothSucceed ==
    \A r \in Runs :
        (/\ Done(r)
         /\ kind[r] = "createTaskWithCard"
         /\ Len(calls[r]) >= 2
         /\ CallOk(calls[r][1])
         /\ CallOk(calls[r][2]))
        => /\ outcome[r].success = TRUE
           /\ Tags(outcome[r].results) =
                 << <<"github", "branch_created">>, <<"trello", "card_created">> >>

C6_Witness ==
    \E r \in Runs :
        /\ Done(r)
        /\ kind[r] = "createTaskWithCard"
        /\ Len(calls[r]) = 2
        /\ CallOk(calls[r][1])
        /\ CallOk(calls[r][2])

\* C7: in a createPRAndUpdateCard run move_card is attempted only if cardId
\* and reviewListId are both supplied (non-empty), and a finished run that was
\* given both has attempted it; when one is absent and the PR was created,
\* neither move_card nor add_comment is attempted, the ledger is the one entry
\* pr_created and success = true.
C7_MoveGatedOnBothIds ==
    \A r \in Runs :
        kind[r] = "createPRAndUpdateCard" =>
            LET both == Truthy(params[r].cardId) /\ Truthy(params[r].reviewListId)
            IN  /\ CallsOf(r, "move_card") # {} => both
                /\ (Done(r) /\ both) => CallsOf(r, "move_card") # {}
                /\ (Done(r) /\ ~both /\ CallOk(calls[r][1]))
                   => /\ CallsOf(r, "move_card") = {}
                      /\ CallsOf(r, "add_comment") = {}
                      /\ Tags(outcome[r].results) = << <<"github", "pr_created">> >>
                      /\ outcome[r].success = TRUE

C7_Witness ==
    \E r \in Runs :
        /\ Done(r)
        /\ kind[r] = "createPRAndUpdateCard"
        /\ Truthy(params[r].cardId)
        /\ ~Truthy(params[r].reviewListId)
        /\ CallOk(calls[r][1])

\* C8: in a createPRAndUpdateCard run every add_comment call comes after a
\* move_card call of the same run that succeeded.
C8_CommentOnlyAfterMove ==
    \A r \in Runs :
        kind[r] = "createPRAndUpdateCard" =>
            \A j \in CallsOf(r, "add_comment") :
                \E i \in CallsOf(r, "move_card") :
                    i < j /\ CallOk(calls[r][i])

C8_Witness ==
    \E r \in Runs :
        /\ kind[r] = "createPRAndUpdateCard"
        /\ CallsOf(r, "add_comment") # {}

\* C9: a run never issues a call while an earlier call of it has not yet
\* settled: only the last call of a run can be in flight.
C9_OneCallInFlight ==
    \A r \in Runs :
        \A i \in 1..Len(calls[r]) :
            calls[r][i].status = "inflight" => i = Len(calls[r])

C9_Witness ==
    \E r \in Runs :
        /\ Len(calls[r]) = 3
        /\ calls[r][3].status = "inflight"

\* C10: a run invokes the adapter operation of each step at most once, every
\* call is one of the workflow's own steps, a call that threw is the run's
\* last call, and no remote request of the run deletes or reverts anything.
C10_NoRetryNoCompensation ==
    \A r \in Runs :
        /\ \A s \in ForwardSteps(kind[r]) : Cardinality(CallsOf(r, s)) <= 1
        /\ \A i \in 1..Len(calls[r]) :
              /\ calls[r][i].step \in ForwardSteps(kind[r])
              /\ calls[r][i].args.action = calls[r][i].step
              /\ calls[r][i].status = "threw" => i = Len(calls[r])
        /\ \A k \in 1..Len(RemoteOf(calls[r])) :
              RemoteOf(calls[r])[k].api \in ForwardApis

C10_Witness ==
    \E r \in Runs :
        /\ Done(r)
        /\ Len(calls[r]) = 2
        /\ CallOk(calls[r][1])
        /\ calls[r][2].status = "threw"
        /\ outcome[r].success = FALSE

\* The index of the first failed call of run r (0: no call has failed).
FirstFailure(r) ==
    LET failed == { i \in 1..Len(calls[r]) : CallFailed(calls[r][i]) }
    IN  IF failed = {} THEN 0
        ELSE CHOOSE i \in failed : \A j \in failed : i <= j

\* The failure text of a failed call: the thrown message, or the cause in
\* the error result of GithubTool.run.
FailureText(c) ==
    IF c.status = "threw" THEN c.reply.message ELSE GithubFailureCause(c.reply)

\* The tags of the entries of the first n calls of run r.
TagsBefore(r, n) ==
    [i \in 1..n |-> <<calls[r][i].tool, EntryAction(kind[r], calls[r][i].step)>>]

\* C11: whatever step of a finished run failed first, the outcome is a
\* failure value: success = false, results is the ledger accumulated before
\* the failing step, and message contains the failure text.
C11_FailureIsReturnedOutcome ==
    \A r \in Runs :
        (Done(r) /\ FirstFailure(r) # 0) =>
            /\ outcome[r].success = FALSE
            /\ Tags(outcome[r].results) = TagsBefore(r, FirstFailure(r) - 1)
            /\ Contains(outcome[r].message, FailureText(calls[r][FirstFailure(r)]))

\* The state of a run in the state machine of the specification.
RunState(r) ==
    CASE pc[r] = "idle" -> "Pending"
      [] pc[r] \in {"invoke", "await"} -> "Running"
      [] pc[r] = "done" /\ outcome[r].success -> "Completed"
      [] OTHER -> "Aborted"

\* C12: a run whose step has failed is Aborted and that call was its last;
\* a run is Completed only if every required step has a successful call and
\* its ledger entry.
C12_RunStateMachine ==
    \A r \in Runs :
        /\ FirstFailure(r) # 0 =>
              /\ RunState(r) = "Aborted"
              /\ FirstFailure(r) = Len(calls[r])
        /\ RunState(r) = "Completed" =>
              \A s \in RequiredSteps(kind[r]) :
                  /\ \E i \in CallsOf(r, s) : CallOk(calls[r][i])
                  /\ \E j \in 1..Len(outcome[r].results) :
                        outcome[r].results[j].action = EntryAction(kind[r], s)

\* C13: a run whose version-control step names a repository that is not
\* configured invokes no task-board operation and ends with success = false.
C13_UnknownRepoAborts ==
    \A r \in Runs :
        (/\ kind[r] \in {"createTaskWithCard", "createPRAndUpdateCard"}
         /\ FindRepo(params[r].repoName) = 0)
        => /\ \A i \in 1..Len(calls[r]) : calls[r][i].tool # "trello"
           /\ Done(r) => outcome[r].success = FALSE

\* C14: a completeTask run calls update_card (closed = true) first and
\* add_comment second and nothing else; add_comment is called only after
\* update_card succeeded; a failed update_card leaves the ledger empty; a
\* failed add_comment after a successful update_card leaves the one entry
\* card_completed with success = false, and no request reopens the card;
\* success = true needs both.
C14_CompletionOrder ==
    \A r \in Runs :
        kind[r] = "completeTask" =>
            /\ Len(calls[r]) <= 2
            /\ Len(calls[r]) >= 1 =>
                  /\ calls[r][1].step = "update_card"
                  /\ calls[r][1].args.cardId = params[r].cardId
                  /\ calls[r][1].args.closed = <<"true">>
            /\ Len(calls[r]) = 2 =>
                  /\ calls[r][2].step = "add_comment"
                  /\ CallOk(calls[r][1])
            /\ (Done(r) /\ CallFailed(calls[r][1])) =>
                  /\ outcome[r].results = <<>>
                  /\ outcome[r].success = FALSE
            /\ (Done(r) /\ Len(calls[r]) = 2 /\ CallFailed(calls[r][2])) =>
                  /\ Tags(outcome[r].results) = << <<"trello", "card_completed">> >>
                  /\ outcome[r].success = FALSE
            /\ (Done(r) /\ outcome[r].success) =>
                  /\ Len(calls[r]) = 2
                  /\ CallOk(calls[r][1])
                  /\ CallOk(calls[r][2])
            /\ \A k \in 1..Len(RemoteOf(calls[r])) :
                  RemoteOf(calls[r])[k].api = "PUT /1/cards/:id"
                  => RemoteOf(calls[r])[k].payload.closed = <<"true">>

C14_Witness ==
    \E r \in Runs :
        /\ Done(r)
        /\ kind[r] = "completeTask"
        /\ Len(calls[r]) = 2
        /\ CallOk(calls[r][1])
        /\ calls[r][2].status = "threw"
        /\ RemoteOf(calls[r])[1].ok

\* ------------------------------------------------------- concurrent runs
\* Number of method invocations in progress at once on the one instance.
NumConcRuns == 2

ConcRuns == 1..NumConcRuns

\* The parameter objects of the concurrent callers.
ConcParamsFor(wf) ==
    CASE wf = "createTaskWithCard" ->
            { WorkflowParams("example-repo", GoodBranch, <<"l","1">>,
                             UNDEF, UNDEF, FALSE) }
      [] wf = "createPRAndUpdateCard" ->
            { WorkflowParams("example-repo", GoodBranch, UNDEF,
                             <<"c","1">>, <<"l","1">>, FALSE),
              WorkflowParams("example-repo", UNDEF, UNDEF,
                             <<"c","1">>, UNDEF, FALSE) }
      [] wf = "completeTask" ->
            { WorkflowParams("example-repo", GoodBranch, UNDEF, <<"c","1">>, UNDEF, FALSE) }

\* A caller invokes a workflow method while others may be in progress.
StartConc(r) ==
    /\ pc[r] = "idle"
    /\ \E wf \in WorkflowKinds : \E p \in ConcParamsFor(wf) :
        /\ kind' = [kind EXCEPT ![r] = wf]
        /\ params' = [params EXCEPT ![r] = p]
        /\ step' = [step EXCEPT ![r] = FirstStep(wf)]
    /\ pc' = [pc EXCEPT ![r] = "invoke"]
    /\ results' = [results EXCEPT ![r] = FreshLedger(results, r)]
    /\ UNCHANGED <<trelloDefaults, calls, outcome, toolVars>>

\* The TrelloTool of the concurrent runs has no default board or list.
InitConc ==
    /\ WorkflowIdle(ConcRuns)
    /\ trelloDefaults.listId = UNDEF
    /\ ToolsIdle

NextConc ==
    \E r \in ConcRuns :
        \/ StartConc(r) /\ UNCHANGED crossing
        \/ Invoke(r) /\ UNCHANGED crossing
        \/ Return(r) /\ UNCHANGED crossing

SpecConc == InitConc /\ [][NextConc]_vars

\* The replies of the calls of run r, in order.
Replies(r) == [i \in 1..Len(calls[r]) |-> calls[r][i].reply]

\* The outcome a method returns when it runs alone from step s with ledger
\* `ledger` and its awaited calls settle with `replies`, in order.
RECURSIVE SoloOutcome(_, _, _, _, _)
SoloOutcome(wf, p, s, replies, ledger) ==
    IF replies = <<>> THEN NoOutcome
    ELSE IF Head(replies).threw
    THEN CatchOutcome(wf, Head(replies).message, ledger)
    ELSE IF StepAfter(wf, s, p) = "return"
    THEN SuccessOutcome(wf, Append(ledger, LedgerEntry(wf, s, Head(replies))))
    ELSE SoloOutcome(wf, p, StepAfter(wf, s, p), Tail(replies),
                     Append(ledger, LedgerEntry(wf, s, Head(replies))))

\* C15: under every interleaving of concurrent runs, the ledger of a run
\* holds only entries made from the replies of its own calls, and the outcome
\* of a finished run is the one it returns when run alone with the same
\* adapter replies.
C15_RunsShareNoState ==
    \A r \in DOMAIN pc :
        /\ Len(results[r]) <= Len(calls[r])
        /\ \A i \in 1..Len(results[r]) :
              results[r][i] = LedgerEntry(kind[r], calls[r][i].step, calls[r][i].reply)
        /\ Done(r) =>
              outcome[r] = SoloOutcome(kind[r], params[r], FirstStep(kind[r]),
                                       Replies(r), <<>>)

C15_Witness ==
    \E r1, r2 \in DOMAIN pc :
        /\ r1 # r2
        /\ Done(r1)
        /\ Len(outcome[r1].results) >= 2
        /\ pc[r2] = "await"
        /\ Len(results[r2]) >= 1

MaxOver == 10

\* The first characters of the candidates: whitelisted prefixes, a prefix in
\* the wrong case, a prefix without its slash, an unlisted prefix, nothing.
CandidateHeads ==
    { <<"f","i","x","/">>,
      <<"f","e","a","t","u","r","e","/">>,
      <<"d","o","c","s","/">>,
      <<"F","i","x","/">>,
      <<"f","i","x">>,
      <<"x","y","z","-">>,
      <<>> }

\* The characters the rest of a candidate is made of.
CandidateChars == {"a", "Z", "7", "_", "-", "/", " ", "!", "."}

\* The lengths of the candidates that start with head h.
CandidateLengths(h) ==
    {Len(h) + 1, MaxLength - 1, MaxLength, MaxLength + 1, MaxLength + MaxOver}

\* The candidate of n characters: the head, a run of `fill`, then `last`.
Candidate(h, fill, last, n) ==
    h \o [i \in 1..(n - Len(h) - 1) |-> fill] \o <<last>>

\* The strings handed to validateBranchName.
Candidates ==
    CandidateHeads
    \cup { Candidate(h, fill, last, n) :
             <<h, fill, last, n>> \in
                 UNION { {h1} \X CandidateChars \X CandidateChars \X CandidateLengths(h1) :
                         h1 \in CandidateHeads } }

\* A caller holds a candidate string; validateBranchName has not run.
InitValidate ==
    /\ WorkflowIdle(Runs)
    /\ candidate \in Candidates
    /\ verdict = NoVerdict
    /\ request = NoRequest
    /\ response = NoResponse
    /\ environment = BuiltInEnvironment
    /\ repositories = Loaded(DefaultRepositories)

\* this.validateBranchName(candidate) returns its verdict object.
Validate ==
    /\ verdict = NoVerdict
    /\ verdict' = validateBranchName(candidate)
    /\ UNCHANGED <<trelloDefaults, kind, params, pc, step, results, calls,
                   outcome, candidate, request, response, environment,
                   repositories, crossing>>

NextValidate == Validate

SpecValidate == InitValidate /\ [][NextValidate]_vars

\* validateBranchName has returned for the candidate.
Validated == verdict # NoVerdict

\* The policy in the words of the rules: a whitelisted prefix, ...
HasWhitelistedPrefix(s) ==
    \E k \in DOMAIN Prefixes :
        /\ Len(Prefixes[k]) <= Len(s)
        /\ \A i \in 1..Len(Prefixes[k]) : s[i] = Prefixes[k][i]

Letters ==
    { "a","b","c","d","e","f","g","h","i","j","k","l","m",
      "n","o","p","q","r","s","t","u","v","w","x","y","z",
      "A","B","C","D","E","F","G","H","I","J","K","L","M",
      "N","O","P","Q","R","S","T","U","V","W","X","Y","Z" }

DecimalDigits == {"0","1","2","3","4","5","6","7","8","9"}

\* ... and only letters, digits, '/', '_' and '-'.
OnlyPolicyChars(s) ==
    \A i \in 1..Len(s) : s[i] \in Letters \cup DecimalDigits \cup {"/", "_", "-"}

\* The rule a verdict reports, read from its error text.
ReportedRule(v) ==
    IF v.isValid THEN "none"
    ELSE IF Head(v.error) = "Branch name must start with one of: " THEN "prefix"
    ELSE IF Head(v.error) = "Branch name too long (" THEN "length"
    ELSE IF v.error = <<"Branch name contains invalid characters">> THEN "chars"
    ELSE "other"

\* C17: a candidate with a whitelisted prefix, at most 50 characters and only
\* letters, digits, '/', '_' and '-' is accepted with the compliance
\* message; a candidate of exactly 50 such characters is accepted and a
\* candidate of 51 characters is rejected.
C17_CompliantAccepted ==
    Validated =>
        /\ (/\ HasWhitelistedPrefix(candidate)
            /\ Len(candidate) <= 50
            /\ OnlyPolicyChars(candidate))
           => /\ verdict.isValid
              /\ verdict.complianceMessage =
                    <<"Branch name follows company Git best practices">>
              /\ verdict.error = NoVerdictText
        /\ Len(candidate) = 51 => ~verdict.isValid

C17_Witness ==
    /\ Validated
    /\ Len(candidate) = 50
    /\ HasWhitelistedPrefix(candidate)
    /\ OnlyPolicyChars(candidate)
    /\ verdict.isValid

\* C18: the rules are evaluated in the order prefix, length, character set
\* and only the first failing rule is reported: no whitelisted prefix is a
\* prefix violation whatever else is wrong, a whitelisted prefix with more
\* than 50 characters is a length violation whatever the characters are, a
\* character violation is reported exactly when prefix and length pass and
\* a character is illegal, and a candidate violating a rule is never valid.
C18_FirstFailingRuleReported ==
    Validated =>
        /\ ~HasWhitelistedPrefix(candidate) => ReportedRule(verdict) = "prefix"
        /\ (HasWhitelistedPrefix(candidate) /\ Len(candidate) > 50)
           => /\ ReportedRule(verdict) = "length"
              /\ verdict.error =
                    <<"Branch name too long (">> \o Digits(Len(candidate))
                    \o <<"/", "5", "0", " chars)">>
        /\ ReportedRule(verdict) = "chars"
           <=> (/\ HasWhitelistedPrefix(candidate)
                /\ Len(candidate) <= 50
                /\ ~OnlyPolicyChars(candidate))
        /\ (\/ ~HasWhitelistedPrefix(candidate)
            \/ Len(candidate) > 50
            \/ ~OnlyPolicyChars(candidate))
           => /\ ~verdict.isValid
              /\ verdict.complianceMessage = NoVerdictText

C18_Witness ==
    /\ Validated
    /\ HasWhitelistedPrefix(candidate)
    /\ Len(candidate) > 50
    /\ ~OnlyPolicyChars(candidate)
    /\ ReportedRule(verdict) = "length"

\* ------------------------------------------------ direct GithubTool calls
\* The `action` values a caller passes, one of them not in the switch.
GithubActions ==
    { "list_repos", "list_branches", "create_branch", "create_pr",
      "list_prs", "get_file", "update_file", "delete_branch" }

\* The `repoName` values: a configured name, a configured owner/repo, neither.
GithubRepoNames == RepoNames \cup {"owner/repository"}

\* The `taskBranch` values: left out, empty, and names that pass or violate
\* each rule of the policy.
GithubBranches ==
    {UNDEF, <<>>, GoodBranch, BadPrefixBranch}
    \cup { Candidate(h, "a", last, n) :
             <<h, last, n>> \in
                 UNION { {h1} \X {"a", "!"} \X CandidateLengths(h1) :
                         h1 \in { <<"f","i","x","/">>, <<"x","y","z","-">> } } }

\* The `taskDescription` values.
GithubDescriptions == {UNDEF, <<"d">>, ValidUpdateInfo}

\* The argument objects of GithubTool.run.
GithubRequests ==
    { GithubArgs(rn, a, tb, td) :
        <<rn, a, tb, td>> \in
            GithubRepoNames \X GithubActions \X GithubBranches \X GithubDescriptions }

\* A caller holds the arguments of a GithubTool.run call not yet made.
InitGithub ==
    /\ WorkflowIdle(Runs)
    /\ candidate = UNDEF
    /\ verdict = NoVerdict
    /\ request \in GithubRequests
    /\ response = NoResponse
    /\ environment = BuiltInEnvironment
    /\ repositories = Loaded(DefaultRepositories)

\* await githubTool.run(request): the call is made and settles.
GithubCall ==
    /\ ~response.settled
    /\ \E failAt \in FailPoints : \E now \in Timestamps :
          response' = [settled |-> TRUE, reply |-> GithubRun(request, failAt, now)]
    /\ UNCHANGED <<trelloDefaults, kind, params, pc, step, results, calls,
                   outcome, candidate, verdict, request, environment,
                   repositories, crossing>>

NextGithub == GithubCall

SpecGithub == InitGithub /\ [][NextGithub]_vars

\* The branch names a request can stand for: the one given, or one made from
\* the clock when none is given.
RequestedNames(req) ==
    IF Truthy(req.taskBranch) THEN {req.taskBranch}
    ELSE { <<"t","a","s","k","-">> \o Digits(now) : now \in Timestamps }

\* The first policy rule a name violates, in the words of the policy.
ViolatedRule(name) ==
    IF ~HasWhitelistedPrefix(name) THEN "prefix"
    ELSE IF Len(name) > 50 THEN "length"
    ELSE IF ~OnlyPolicyChars(name) THEN "chars"
    ELSE "none"

\* The start of the error text that names a violated rule.
RuleErrorHead(rule) ==
    CASE rule = "prefix" -> "Branch name must start with one of: "
      [] rule = "length" -> "Branch name too long ("
      [] rule = "chars" -> "Branch name contains invalid characters"

\* The result is the policy rejection of createBranch.
IsPolicyRejection(reply) ==
    /\ ~reply.threw
    /\ reply.isError
    /\ reply.text # <<>>
    /\ Head(reply.text) = "Branch name validation failed: "

\* C19: a settled create_branch request whose name violates the policy has
\* made no remote call; on a configured repository its result is an error
\* result that starts as a validation failure and names the violated rule;
\* and no other result of GithubTool.run starts as a validation failure.
C19_CreateBranchGated ==
    response.settled =>
        /\ request.action = "create_branch" =>
              \A name \in RequestedNames(request) :
                  ViolatedRule(name) # "none" =>
                      /\ response.reply.remote = <<>>
                      /\ response.reply.isError
                      /\ FindRepo(request.repoName) # 0 =>
                            /\ IsPolicyRejection(response.reply)
                            /\ Contains(response.reply.text,
                                        <<RuleErrorHead(ViolatedRule(name))>>)
        /\ IsPolicyRejection(response.reply) =>
              /\ request.action = "create_branch"
              /\ FindRepo(request.repoName) # 0
              /\ \A name \in RequestedNames(request) : ViolatedRule(name) # "none"

C19_Witness ==
    /\ response.settled
    /\ request.action = "create_branch"
    /\ request.repoName = "example-repo"
    /\ Truthy(request.taskBranch)
    /\ ViolatedRule(request.taskBranch) = "length"
    /\ IsPolicyRejection(response.reply)
    /\ response.reply.remote = <<>>

\* C23: list_repos returns the list of all configured repositories whatever
\* repoName is, a name that is not configured included.
C23_ListReposForAnyName ==
    (response.settled /\ request.action = "list_repos")
    => response.reply = listRepositoriesFormatted

\* The remote requests of a reply to the API `api`.
RequestsTo(reply, api) ==
    { i \in 1..Len(reply.remote) : reply.remote[i].api = api }

C30_LookupBeforeCreate ==
    (response.settled /\ request.action = "create_branch")
    => LET remote == response.reply.remote
       IN  /\ \A i \in RequestsTo(response.reply, "git.createRef") :
                 /\ i = 2
                 /\ remote[1].api = "git.getRef"
                 /\ remote[1].ok
                 /\ remote[1].target = remote[i].target
                 /\ remote[i].payload[Len(remote[i].payload) - 1] = "sha-of:"
                 /\ <<"heads/", remote[i].payload[Len(remote[i].payload)]>>
                       = remote[1].payload
           /\ (remote # <<>> /\ ~remote[1].ok) => Len(remote) = 1
           /\ ~response.reply.isError =>
                 /\ Len(remote) = 2
                 /\ remote[2].api = "git.createRef"
                 /\ remote[2].ok

C30_Witness ==
    /\ response.settled
    /\ request.action = "create_branch"
    /\ Len(response.reply.remote) = 1
    /\ response.reply.remote[1].api = "git.getRef"
    /\ ~response.reply.remote[1].ok
    /\ response.reply.isError

\* C24: in a TaskCreation run the card is created only after the
\* create-branch call has returned, and its description names the branch
\* the version-control adapter used for that call and its repository.
C24_CardReferencesBranch ==
    \A r \in DOMAIN pc :
        kind[r] = "createTaskWithCard" =>
            \A i \in CallsOf(r, "create_card") :
                /\ i = 2
                /\ calls[r][1].step = "create_branch"
                /\ calls[r][1].status = "returned"
                /\ Contains(calls[r][i].args.description,
                            <<"Repository: ", calls[r][1].args.repoName>>)
                /\ \E name \in RequestedNames(calls[r][1].args) :
                      Contains(calls[r][i].args.description,
                               <<"GitHub Branch: ">> \o name)

\* The operation of a settled call failed: it made no remote request, or the
\* remote service rejected one.
OperationFailed(c) ==
    \/ c.reply.remote = <<>>
    \/ \E i \in 1..Len(c.reply.remote) : ~c.reply.remote[i].ok

\* C28: a version-control call never throws and returns isError = true
\* exactly when its operation failed; a task-board call throws exactly when
\* its operation failed, with a message starting 'Trello operation failed: ';
\* so a run ends in its catch block only after a task-board call threw.
C28_AdaptersFailDifferently ==
    \A r \in DOMAIN pc :
        /\ \A i \in 1..Len(calls[r]) :
              LET c == calls[r][i]
              IN  c.status # "inflight" =>
                      /\ c.tool = "github" =>
                            /\ c.status = "returned"
                            /\ ~c.reply.threw
                            /\ c.reply.isError <=> OperationFailed(c)
                      /\ c.tool = "trello" =>
                            /\ c.status = "threw" <=> OperationFailed(c)
                            /\ c.status = "threw" =>
                                  Head(c.reply.message) = "Trello operation failed: "
        /\ (Done(r) /\ ~outcome[r].success) =>
              /\ calls[r][Len(calls[r])].tool = "trello"
              /\ calls[r][Len(calls[r])].status = "threw"
              /\ \A i \in 1..Len(calls[r]) :
                    calls[r][i].status = "threw" => i = Len(calls[r])

C28_Witness ==
    \E r \in DOMAIN pc :
        /\ Done(r)
        /\ ~outcome[r].success
        /\ Len(calls[r]) = 2
        /\ calls[r][1].tool = "github"
        /\ calls[r][1].status = "returned"
        /\ calls[r][1].reply.isError
        /\ calls[r][2].tool = "trello"
        /\ calls[r][2].status = "threw"

\* ------------------------------------------------------------- termination
\* Termination is a property of one invocation: the run observed alone.
LiveRuns == {1}

InitLive ==
    /\ WorkflowIdle(LiveRuns)
    /\ ToolsIdle

NextLive ==
    \E r \in LiveRuns :
        \/ Start(r) /\ UNCHANGED crossing
        \/ Invoke(r) /\ UNCHANGED crossing
        \/ Return(r) /\ UNCHANGED crossing

\* The method body runs on to its next await without being preempted, and
\* every adapter call in flight eventually settles.
SpecLive ==
    /\ InitLive
    /\ [][NextLive]_vars
    /\ \A r \in LiveRuns :
          /\ WF_vars(Invoke(r) /\ UNCHANGED crossing)
          /\ WF_vars(Return(r) /\ UNCHANGED crossing)

\* The most adapter calls a run of each workflow issues.
CallBound(wf) ==
    CASE wf = "createTaskWithCard" -> 2
      [] wf = "createPRAndUpdateCard" -> 3
      [] wf = "completeTask" -> 2
      [] OTHER -> 0

\* C27: a run issues at most 2 adapter calls (TaskCreation, Completion) or 3
\* (ReviewTransition) and calls no step twice; it has no outcome while a call
\* is in flight, and an outcome appears only when an awaited call settles;
\* and when every call in flight eventually settles, every run that was
\* started ends with an outcome.
C27_RunsTerminate ==
    /\ [](\A r \in LiveRuns :
            /\ Len(calls[r]) <= CallBound(kind[r])
            /\ \A i, j \in 1..Len(calls[r]) :
                  calls[r][i].step = calls[r][j].step => i = j
            /\ pc[r] = "await" => outcome[r] = NoOutcome)
    /\ [][\A r \in LiveRuns :
            outcome'[r] # outcome[r] =>
                /\ pc[r] = "await"
                /\ pc'[r] = "done"
                /\ calls'[r][Len(calls'[r])].status # "inflight"]_vars
    /\ \A r \in LiveRuns : (pc[r] # "idle") ~> Done(r)

C27_Witness ==
    \E r \in LiveRuns :
        /\ Done(r)
        /\ kind[r] = "createPRAndUpdateCard"
        /\ Len(calls[r]) = 3
        /\ outcome[r].success

\* ------------------------------------------- interleaved external effects
\* Run a is between two of its adapter calls: one has settled and the next
\* is not yet issued.
InGap(a) == pc[a] = "invoke" /\ Len(calls[a]) >= 1

\* What the remote services see when run r issues a call: r leaves its own
\* gap, and the call falls into the gap of every run that is in one.
CrossingAtIssue(r) ==
    [a \in DOMAIN crossing |->
        IF a = r THEN [crossing[a] EXCEPT !.since = {}]
        ELSE IF InGap(a) THEN [crossing[a] EXCEPT !.since = @ \cup {r}]
        ELSE crossing[a]]

\* What they see when the call of run r settles: it was issued and has
\* settled inside the gap of every run that saw it issued and is still there.
CrossingAtSettle(r) ==
    [a \in DOMAIN crossing |->
        IF a # r /\ InGap(a) /\ r \in crossing[a].since
        THEN [crossing[a] EXCEPT !.crossed = TRUE]
        ELSE crossing[a]]

\* The run just started names a card and a branch: with the inputs of the
\* concurrent callers, the same card and the same branch as every other.
TargetsCardAndBranch(p) == Truthy(p.cardId) /\ Truthy(p.branchName)

\* The concurrent runs on one card and branch, with the order of their
\* external operations observed.
NextInterleaved ==
    \E r \in ConcRuns :
        \/ StartConc(r) /\ TargetsCardAndBranch(params'[r]) /\ UNCHANGED crossing
        \/ Invoke(r) /\ crossing' = CrossingAtIssue(r)
        \/ Return(r) /\ crossing' = CrossingAtSettle(r)

SpecInterleaved == InitConc /\ [][NextInterleaved]_vars

\* Every adapter call of run r has settled successfully.
AllCallsOk(r) ==
    /\ calls[r] # <<>>
    /\ \A i \in 1..Len(calls[r]) : CallOk(calls[r][i])

\* C26: nothing coordinates concurrent runs on the same card or branch: a
\* run about to issue an adapter call can always issue it, whatever the other
\* runs are doing, and a finished run whose operations all succeeded reports
\* success also when an operation of another run fell between two of its own.
C26_RunsNotCoordinated ==
    \A r \in DOMAIN pc :
        /\ pc[r] = "invoke" => ENABLED Invoke(r)
        /\ (Done(r) /\ AllCallsOk(r)) => outcome[r].success

C26_Witness ==
    \E a, b \in DOMAIN pc :
        /\ a # b
        /\ Done(a) /\ Done(b)
        /\ AllCallsOk(a) /\ AllCallsOk(b)
        /\ outcome[a].success /\ outcome[b].success
        /\ Truthy(params[a].cardId)
        /\ params[a].cardId = params[b].cardId
        /\ params[a].branchName = params[b].branchName
        /\ Len(calls[a]) >= 2
        /\ crossing[a].crossed

\* ------------------------------------------------------- server start-up
\* The process has its environment and config file; nothing is loaded yet.
InitLoad ==
    /\ WorkflowIdle(Runs)
    /\ candidate = UNDEF
    /\ verdict = NoVerdict
    /\ request = NoRequest
    /\ response = NoResponse
    /\ environment \in Environments
    /\ repositories = NotLoaded

\* const repositories = loadRepositories()
Startup ==
    /\ ~repositories.loaded
    /\ LET r == loadRepositories(environment)
       IN  repositories' = [loaded |-> ~r.threw, value |-> r.value]
    /\ UNCHANGED <<trelloDefaults, kind, params, pc, step, results, calls,
                   outcome, candidate, verdict, request, response, environment,
                   crossing>>

NextLoad == Startup

SpecLoad == InitLoad /\ [][NextLoad]_vars

\* The texts that are well-formed configuration: GITHUB_REPOS holds an array
\* of repository objects, the file an object.
WellFormedArray(t) ==
    t \in { <<"[", "]">>, <<"[", "api", "]">>, <<"[", "web", "]">>,
            <<"[", "api", "web", "]">> }

WellFormedFile(f) ==
    /\ f.readable
    /\ f.content \in { <<"{", "}">>,
                       <<"{", "repositories:", "[", "]", "}">>,
                       <<"{", "repositories:", "[", "web", "]", "}">> }

\* The `repositories` of a well-formed file.
RepositoriesOfFile(f) ==
    CASE f.content = <<"{", "}">> -> UndefinedValue
      [] f.content = <<"{", "repositories:", "[", "]", "}">> -> ArrayValue(<<>>)
      [] f.content = <<"{", "repositories:", "[", "web", "]", "}">> ->
            ArrayValue(<< [name |-> "web", repo |-> "company/web-app",
                           defaultBranch |-> "develop"] >>)

\* The built-in example configuration.
ExampleConfiguration ==
    ArrayValue(<< [name |-> "example-repo", repo |-> "owner/repository",
                   defaultBranch |-> "main"] >>)

\* C25: start-up always ends with a repository list. It is the value of
\* GITHUB_REPOS when that is set; otherwise the repositories of
\* config/repos.json when the file exists; otherwise the built-in example
\* list; and the built-in example list whenever the source that has
\* precedence cannot be read or parsed.
C25_LoadPrecedence ==
    repositories # NotLoaded =>
        /\ repositories.loaded
        /\ IF Truthy(environment.githubRepos)
           THEN IF WellFormedArray(environment.githubRepos)
                THEN /\ repositories.value.defined
                     /\ Len(repositories.value.items)
                           = Len(environment.githubRepos) - 2
                     /\ \A i \in 1..Len(repositories.value.items) :
                           repositories.value.items[i].name
                              = environment.githubRepos[i + 1]
                ELSE repositories.value = ExampleConfiguration
           ELSE IF environment.configFile.exists
           THEN IF WellFormedFile(environment.configFile)
                THEN repositories.value = RepositoriesOfFile(environment.configFile)
                ELSE repositories.value = ExampleConfiguration
           ELSE repositories.value = ExampleConfiguration

C25_Witness ==
    /\ repositories.loaded
    /\ Truthy(environment.githubRepos)
    /\ ~WellFormedArray(environment.githubRepos)
    /\ environment.configFile.exists
    /\ WellFormedFile(environment.configFile)
    /\ repositories.value = ExampleConfiguration

\* ------------------------------------------------------ DocumentationTool
\* The documents in the cache: the .md files of the docs directory.
DocNames == { <<"git-best-practices">>, <<"how-to-make-github-prs">> }

\* rulesMap[category] || category, for the lower-case categories of the
\* inputs.
RulesDocName(category) ==
    CASE category = <<"git">> -> <<"git-best-practices">>
      [] category = <<"coding">> -> <<"coding-best-practices">>
      [] category = <<"review">> -> <<"code-review-best-practices">>
      [] category \in { <<"pr">>, <<"github">> } -> <<"how-to-make-github-prs">>
      [] OTHER -> category

\* DocumentationTool.listDocuments
docsListDocuments == Returned(FALSE, <<"Available Company Documentation:">>, <<>>)

\* DocumentationTool.getDocument
docsGetDocument(docName) ==
    IF ~Truthy(docName) THEN docsListDocuments
    ELSE IF docName \notin DocNames
    THEN Threw(<<"Document '">> \o docName \o <<"' not found. Available: ">>, <<>>)
    ELSE Returned(FALSE, <<"Document: ">> \o docName, <<>>)

\* DocumentationTool.searchDocuments
docsSearchDocuments(query) ==
    IF ~Truthy(query) THEN Threw(<<"Search query is required">>, <<>>)
    ELSE Returned(FALSE, <<"Search: ">> \o query, <<>>)

\* DocumentationTool.getCompanyRules
docsGetCompanyRules(category) ==
    IF ~Truthy(RulesDocName(category))
    THEN Returned(FALSE, <<"Company Rules Categories:">>, <<>>)
    ELSE docsGetDocument(RulesDocName(category))

\* DocumentationTool.getGuidelines
docsGetGuidelines(actionType) ==
    Returned(FALSE, <<"Guidelines: ">> \o Interp(actionType), <<>>)

\* The switch of DocumentationTool.run, inside its try block.
DocsDispatch(args) ==
    CASE args.action = "list" -> docsListDocuments
      [] args.action = "get" -> docsGetDocument(args.document)
      [] args.action = "search" -> docsSearchDocuments(args.query)
      [] args.action = "rules" -> docsGetCompanyRules(args.document)
      [] args.action = "guidelines" -> docsGetGuidelines(args.document)
      [] OTHER -> Threw(<<"Unknown action: ", args.action>>, <<>>)

\* DocumentationTool.run: its catch block returns an error result.
DocsRun(args) ==
    LET r == DocsDispatch(args)
    IN  IF r.threw
        THEN Returned(TRUE, <<"Documentation Error: ">> \o r.message, r.remote)
        ELSE r

\* -------------------------------------------------------------- WpCliTool
\* WpCliTool.run: exec resolves to an error result or to the output.
WpCliRun(args, failAt) ==
    LET req == Request("exec", <<>>, <<"wp ">> \o Interp(args.command), failAt, 1)
    IN  IF ~req.ok
        THEN Returned(TRUE, <<"WP-CLI Error: ">> \o RemoteError, <<req>>)
        ELSE Returned(FALSE, <<"WP-CLI Result:">>, <<req>>)

\* --------------------------------------------------- the call-tool handler
\* A run and the remote requests made before it.
AfterRequests(remote, run) ==
    [outcome |-> run.outcome, remote |-> remote \o run.remote]

\* A workflow method run to its return: the outcome, and the remote requests
\* of its adapter calls. `fails` gives the rejected request of each call.
RECURSIVE WorkflowFrom(_, _, _, _, _, _, _)
RECURSIVE WorkflowAfter(_, _, _, _, _, _, _, _)
WorkflowFrom(wf, p, s, ledger, defaults, fails, now) ==
    WorkflowAfter(wf, p, s, ledger, defaults, fails, now,
                  AdapterCall(StepTool(wf, s), StepArgs(wf, s, p), defaults,
                              Head(fails), now))

\* The method body from the settling of step s's call with `reply`.
WorkflowAfter(wf, p, s, ledger, defaults, fails, now, reply) ==
    IF reply.threw
    THEN [outcome |-> CatchOutcome(wf, reply.message, ledger),
          remote |-> reply.remote]
    ELSE IF StepAfter(wf, s, p) = "return"
    THEN [outcome |-> SuccessOutcome(wf, Append(ledger, LedgerEntry(wf, s, reply))),
          remote |-> reply.remote]
    ELSE AfterRequests(reply.remote,
                       WorkflowFrom(wf, p, StepAfter(wf, s, p),
                                    Append(ledger, LedgerEntry(wf, s, reply)),
                                    defaults, Tail(fails), now))

\* The method each workflow action calls.
WorkflowOfAction(action) ==
    CASE action = "create_task_with_card" -> "createTaskWithCard"
      [] action = "create_pr_and_update_card" -> "createPRAndUpdateCard"
      [] action = "complete_task" -> "completeTask"
      [] OTHER -> "none"

\* r.type.toUpperCase() on the two ledger types.
toUpperCase(type) ==
    CASE type = "github" -> "GITHUB"
      [] type = "trello" -> "TRELLO"

\* The lines the formatter writes for the entries of a ledger.
EntryLines(ledger) ==
    Join([i \in 1..Len(ledger) |->
            <<toUpperCase(ledger[i].type), ledger[i].action>>
            \o (IF ledger[i].result.text # <<>>
                THEN ledger[i].result.text ELSE <<"Completed">>)],
         <<"\n\n">>)

\* WorkflowResponseText with the entries listed after a failure message too.
WorkflowResponseTextReportsPartial(o) == o.message \o EntryLines(o.results)

\* The response text handleWorkflow formats from an outcome.
WorkflowResponseText(o) ==
    IF o.success
    THEN o.message \o EntryLines(o.results)
    ELSE o.message

\* The result handleWorkflow returns for a finished method.
WorkflowResult(run) ==
    Returned(~run.outcome.success, WorkflowResponseText(run.outcome), run.remote)

\* handleWorkflow with an unknown action treated as create_task_with_card.
handleWorkflowDefaultsToTask(args, defaults, fails, now) ==
    IF WorkflowOfAction(args.action) = "none"
    THEN WorkflowResult(WorkflowFrom("createTaskWithCard", args.params,
                                     FirstStep("createTaskWithCard"), <<>>,
                                     defaults, fails, now))
    ELSE WorkflowResult(WorkflowFrom(WorkflowOfAction(args.action), args.params,
                                     FirstStep(WorkflowOfAction(args.action)),
                                     <<>>, defaults, fails, now))

\* handleWorkflow: dispatch on the action, format the outcome; its catch
\* block returns an error result.
handleWorkflow(args, defaults, fails, now) ==
    IF WorkflowOfAction(args.action) = "none"
    THEN Returned(TRUE, <<"Workflow error: ", "Unknown workflow action: ",
                          args.action>>, <<>>)
    ELSE WorkflowResult(WorkflowFrom(WorkflowOfAction(args.action), args.params,
                                     FirstStep(WorkflowOfAction(args.action)),
                                     <<>>, defaults, fails, now))

\* The switch of the call-tool handler, inside its try block. A request
\* without arguments makes the tool's parameter destructuring throw.
CallToolDispatch(req, env, defaults, fails, now) ==
    CASE req.name = "trello" /\ ~TrelloAvailable(env) ->
            Threw(<<"Trello integration not available. Please set TRELLO_API_KEY and TRELLO_TOKEN environment variables.">>, <<>>)
      [] req.name = "workflow" /\ ~TrelloAvailable(env) ->
            Threw(<<"Workflow integration not available. Please set up both GitHub and Trello integrations.">>, <<>>)
      [] req.name \in {"wpcli", "github", "docs", "trello", "workflow"}
         /\ ~req.hasArgs ->
            Threw(<<"<TypeError>">>, <<>>)
      [] req.name = "wpcli" -> WpCliRun(req.args, Head(fails))
      [] req.name = "github" -> GithubRun(req.args, Head(fails), now)
      [] req.name = "docs" -> DocsRun(req.args)
      [] req.name = "trello" -> TrelloRun(req.args, defaults, Head(fails))
      [] req.name = "workflow" -> handleWorkflow(req.args, defaults, fails, now)
      [] OTHER -> Threw(<<"Unknown tool: ", req.name>>, <<>>)

\* The catch block of the call-tool handler returns an error result.
CallToolCatch(name, r) ==
    IF r.threw
    THEN Returned(TRUE, <<"Error executing ", name, ": ">> \o r.message, r.remote)
    ELSE r

\* The call-tool handler.
CallTool(req, env, defaults, fails, now) ==
    CallToolCatch(req.name, CallToolDispatch(req, env, defaults, fails, now))

\* The requests a client sends: each tool with its known actions and one
\* unknown action, without arguments, and an unknown tool.
ToolRequest(name, args) ==
    [method |-> "tools/call", name |-> name, hasArgs |-> TRUE, args |-> args]

NoArguments(name) ==
    [method |-> "tools/call", name |-> name, hasArgs |-> FALSE,
     args |-> [action |-> "none"]]

WpCliRequests == { ToolRequest("wpcli", [command |-> <<"plugin list">>]) }

GithubToolRequests ==
    { ToolRequest("github", GithubArgs(rn, a, tb, UNDEF)) :
        rn \in RepoNames, a \in GithubActions, tb \in {UNDEF, GoodBranch} }

DocsRequests ==
    { ToolRequest("docs", [action |-> a, document |-> d, query |-> q]) :
        a \in {"list", "get", "search", "rules", "guidelines", "delete"},
        d \in { UNDEF, <<"git">>, <<"coding">>, <<"git-best-practices">> },
        q \in { UNDEF, <<"review">> } }

TrelloRequests ==
    { ToolRequest("trello", [TrelloArgs(a) EXCEPT !.cardId = c, !.listId = l,
                                                  !.title = <<"Add login">>,
                                                  !.comment = <<"Done">>]) :
        a \in { "list_boards", "list_lists", "create_card", "list_cards",
                "update_card", "move_card", "add_comment", "archive_card" },
        c \in { UNDEF, <<"c","1">> }, l \in ListIds }

WorkflowRequests ==
    { ToolRequest("workflow",
                  [action |-> a,
                   params |-> WorkflowParams(rn, bn, <<"l","1">>, <<"c","1">>,
                                             <<"l","1">>, FALSE)]) :
        a \in { "create_task_with_card", "create_pr_and_update_card",
                "complete_task", "rollback_task" },
        rn \in RepoNames, bn \in {UNDEF, GoodBranch} }

ToolCalls ==
    WpCliRequests \cup GithubToolRequests \cup DocsRequests \cup TrelloRequests
    \cup WorkflowRequests
    \cup { NoArguments(n) : n \in {"wpcli", "github", "docs", "trello", "workflow"} }
    \cup { ToolRequest("shell", [action |-> "none"]) }

\* The rejected request of each adapter call a request may lead to.
FailSequences == [1..3 -> FailPoints]

\* The server has started with the built-in repository list, with or without
\* Trello credentials, and a client has a request to send.
InitServer ==
    /\ WorkflowIdle(Runs)
    /\ candidate = UNDEF
    /\ verdict = NoVerdict
    /\ request \in ToolCalls
    /\ response = NoResponse
    /\ environment \in { BuiltInEnvironment,
                          [BuiltInEnvironment EXCEPT !.trelloApiKey = UNDEF,
                                                     !.trelloToken = UNDEF] }
    /\ repositories = Loaded(DefaultRepositories)

\* The CallToolRequestSchema handler handles the request.
HandleCallTool ==
    /\ ~response.settled
    /\ \E fails \in FailSequences : \E now \in Timestamps :
          response' = [settled |-> TRUE,
                       reply |-> CallTool(request, environment, trelloDefaults,
                                          fails, now)]
    /\ UNCHANGED <<trelloDefaults, kind, params, pc, step, results, calls,
                   outcome, candidate, verdict, request, environment,
                   repositories, crossing>>

NextServer == HandleCallTool

SpecServer == InitServer /\ [][NextServer]_vars

\* The discriminators each dispatch point knows.
KnownTools == {"wpcli", "github", "docs", "trello", "workflow"}

KnownActions(name) ==
    CASE name = "github" ->
            { "list_repos", "list_branches", "create_branch", "create_pr",
              "list_prs", "get_file", "update_file" }
      [] name = "docs" -> {"list", "get", "search", "rules", "guidelines"}
      [] name = "trello" ->
            { "list_boards", "list_lists", "create_card", "list_cards",
              "update_card", "move_card", "add_comment" }
      [] name = "workflow" ->
            { "create_task_with_card", "create_pr_and_update_card", "complete_task" }
      [] OTHER -> {}

\* The request names a tool, or an action of a tool, that no dispatch point
\* knows.
UnknownDiscriminator(req) ==
    \/ req.name \notin KnownTools
    \/ /\ req.hasArgs
       /\ req.name \in {"github", "docs", "trello", "workflow"}
       /\ req.args.action \notin KnownActions(req.name)

\* C21: a request with an unknown tool name, or an unknown action of the
\* github, docs, trello or workflow tool, gets an error result and causes
\* no remote request.
C21_UnknownDiscriminatorFailsFast ==
    (response.settled /\ UnknownDiscriminator(request))
    => /\ response.reply.isError
       /\ ~response.reply.threw
       /\ response.reply.remote = <<>>

C21_Witness ==
    /\ response.settled
    /\ request.name = "workflow"
    /\ request.hasArgs
    /\ request.args.action = "rollback_task"
    /\ TrelloAvailable(environment)
    /\ response.reply.isError
    /\ Contains(response.reply.text, <<"Unknown workflow action: ">>)
    /\ response.reply.remote = <<>>

\* A request failed: the remote side rejected one of its requests, or the
\* request could not be served at all.
RequestFailed(req, env, reply) ==
    \/ \E i \in 1..Len(reply.remote) : ~reply.remote[i].ok
    \/ UnknownDiscriminator(req)
    \/ ~req.hasArgs
    \/ req.name \in {"trello", "workflow"} /\ ~TrelloAvailable(env)
    \/ /\ req.hasArgs
       /\ req.name = "github"
       /\ FindRepo(req.args.repoName) = 0
    \/ /\ req.hasArgs
       /\ req.name = "workflow"
       /\ FindRepo(req.args.params.repoName) = 0

\* C22: the handler always returns a result and never throws, and every
\* failure of a tool is returned with isError = true.
C22_FailuresAreErrorResults ==
    response.settled =>
        /\ ~response.reply.threw
        /\ RequestFailed(request, environment, response.reply)
           => response.reply.isError

\* ------------------------------------------------ completion and branches
\* The remote requests of the task board.
TaskBoardApis ==
    {"GET /1/members/me/boards", "GET /1/boards/:id/lists", "POST /1/cards",
     "GET /1/lists/:id/cards", "PUT /1/cards/:id",
     "POST /1/cards/:id/actions/comments"}

Respond(r) ==
    /\ pc[r] = "done"
    /\ ~response.settled
    /\ response' = [settled |-> TRUE,
                    reply |-> WorkflowResult([outcome |-> outcome[r],
                                              remote |-> RemoteOf(calls[r])])]
    /\ UNCHANGED <<trelloDefaults, kind, params, pc, step, results, calls,
                   outcome, candidate, verdict, request, environment,
                   repositories>>

NextRespond ==
    \E r \in LiveRuns :
        \/ Start(r) /\ UNCHANGED crossing
        \/ Invoke(r) /\ UNCHANGED crossing
        \/ Return(r) /\ UNCHANGED crossing
        \/ Respond(r) /\ UNCHANGED crossing

SpecRespond == InitLive /\ [][NextRespond]_vars

\* The action tags a ledger entry can carry.
ActionTags ==
    {"branch_created", "card_created", "pr_created", "card_moved",
     "comment_added", "card_completed", "completion_comment_added"}

IsActionTag(token) == token \in ActionTags

\* The action tags a response text names, in the order it names them.
TagsNamed(text) == SelectSeq(text, IsActionTag)

\* C32: the response of handleWorkflow has isError = true exactly when the
\* outcome has success = false; after a success the text names every ledger
\* entry, in ledger order; after a failure the text is the failure message
\* alone and names no entry, whatever the ledger holds.
C32_ResponseReflectsOutcome ==
    \A r \in LiveRuns :
        response.settled =>
            /\ response.reply.isError <=> ~outcome[r].success
            /\ outcome[r].success =>
                  /\ StartsWith(response.reply.text, outcome[r].message)
                  /\ TagsNamed(response.reply.text)
                        = [i \in 1..Len(outcome[r].results) |->
                              outcome[r].results[i].action]
            /\ ~outcome[r].success =>
                  /\ response.reply.text = outcome[r].message
                  /\ TagsNamed(response.reply.text) = <<>>

\* A createTaskWithCard run that created the branch and failed on the card
\* has been answered: the ledger holds the branch entry.
C32_Witness ==
    \E r \in LiveRuns :
        /\ response.settled
        /\ kind[r] = "createTaskWithCard"
        /\ ~outcome[r].success
        /\ Len(outcome[r].results) = 1
        /\ outcome[r].results[1].action = "branch_created"
        /\ ~outcome[r].results[1].result.isError
        /\ response.reply.isError

\* ------------------------------------------------------- the optional tools
\* The names of the tools the ListToolsRequestSchema handler returns.
ListTools(env) ==
    <<"wpcli", "github", "docs">>
    \o (IF TrelloAvailable(env) THEN <<"trello", "workflow">> ELSE <<>>)

\* A tools/list request: it names no tool and carries no arguments.
ListToolsRequest ==
    [method |-> "tools/list", name |-> "", hasArgs |-> FALSE,
     args |-> [action |-> "none"]]

\* The server has started with any combination of the two Trello credentials,
\* and a client lists the tools or calls the trello or the workflow tool.
InitTools ==
    /\ WorkflowIdle(Runs)
    /\ candidate = UNDEF
    /\ verdict = NoVerdict
    /\ request \in TrelloRequests \cup WorkflowRequests
                   \cup {NoArguments("trello"), NoArguments("workflow"),
                         ListToolsRequest}
    /\ response = NoResponse
    /\ environment \in { [BuiltInEnvironment EXCEPT !.trelloApiKey = c.key,
                                                    !.trelloToken = c.token] :
                           c \in TrelloCredentials }
    /\ repositories = Loaded(DefaultRepositories)

\* The ListToolsRequestSchema handler handles the request.
HandleListTools ==
    /\ ~response.settled
    /\ response' = [settled |-> TRUE,
                    reply |-> Returned(FALSE, ListTools(environment), <<>>)]
    /\ UNCHANGED <<trelloDefaults, kind, params, pc, step, results, calls,
                   outcome, candidate, verdict, request, environment,
                   repositories, crossing>>

\* The server hands a request to the handler registered for its schema.
NextTools ==
    \/ request.method = "tools/call" /\ HandleCallTool
    \/ request.method = "tools/list" /\ HandleListTools

SpecTools == InitTools /\ [][NextTools]_vars

\* Both credentials are set in the environment the server started with.
BothCredentialsSet(env) ==
    /\ env.trelloApiKey \notin {UNDEF, <<>>}
    /\ env.trelloToken \notin {UNDEF, <<>>}

\* The reply says that the integration behind the tool does not exist.
SaysNotAvailable(reply) ==
    \/ Contains(reply.text, <<"Trello integration not available. Please set TRELLO_API_KEY and TRELLO_TOKEN environment variables.">>)
    \/ Contains(reply.text, <<"Workflow integration not available. Please set up both GitHub and Trello integrations.">>)

\* C33: the trello and workflow tools are listed exactly when both Trello
\* credentials were set at start-up; without them every call to either tool
\* returns an error result and makes no remote request; with them no call is
\* answered with the missing integration, so both tools and the workflow
\* orchestrator exist.
C33_TrelloToolsNeedCredentials ==
    response.settled =>
        /\ request.method = "tools/list" =>
              /\ Contains(response.reply.text, <<"trello">>)
                    <=> BothCredentialsSet(environment)
              /\ Contains(response.reply.text, <<"workflow">>)
                    <=> BothCredentialsSet(environment)
        /\ (/\ request.method = "tools/call"
            /\ request.name \in {"trello", "workflow"}
            /\ ~BothCredentialsSet(environment))
           => /\ response.reply.isError
              /\ response.reply.remote = <<>>
        /\ (/\ request.method = "tools/call"
            /\ BothCredentialsSet(environment))
           => ~SaysNotAvailable(response.reply)

\* A workflow call with a known action and full parameters has been answered
\* by a server that started with the API key but without the token.
C33_Witness ==
    /\ response.settled
    /\ request.method = "tools/call"
    /\ request.name = "workflow"
    /\ request.hasArgs
    /\ request.args.action = "create_task_with_card"
    /\ environment.trelloApiKey = <<"k","1">>
    /\ environment.trelloToken = UNDEF
    /\ response.reply.isError
    /\ SaysNotAvailable(response.reply)

\* ---------------------------------------------- task-board identifiers
\* The argument objects of direct calls of the four card operations, with
\* and without each identifier.
BoardRequests ==
    { [TrelloArgs(a) EXCEPT !.cardId = c, !.listId = l, !.comment = t,
                            !.title = <<"Add login">>] :
        a \in {"create_card", "update_card", "move_card", "add_comment"},
        c \in CardIds, l \in ListIds, t \in {UNDEF, <<"Done">>} }

\* A caller calls TrelloTool.run directly.
TrelloCall ==
    /\ ~response.settled
    /\ \E args \in BoardRequests : \E failAt \in FailPoints :
          /\ request' = args
          /\ response' = [settled |-> TRUE,
                          reply |-> TrelloRun(args, trelloDefaults, failAt)]
    /\ UNCHANGED <<trelloDefaults, kind, params, pc, step, results, calls,
                   outcome, candidate, verdict, environment, repositories>>

\* Workflow runs and direct task-board calls on the same TrelloTool.
NextBoard ==
    \/ \E r \in LiveRuns :
          \/ Start(r) /\ UNCHANGED crossing
          \/ Invoke(r) /\ UNCHANGED crossing
          \/ Return(r) /\ UNCHANGED crossing
    \/ TrelloCall /\ UNCHANGED crossing

SpecBoard == InitLive /\ [][NextBoard]_vars

\* A value that is no identifier: left out, or the empty string.
Missing(v) == v = UNDEF \/ v = <<>>

\* The operation `args` asks for lacks an identifier it requires.
LacksIdentifier(args, defaults) ==
    \/ args.action = "move_card" /\ (Missing(args.cardId) \/ Missing(args.listId))
    \/ args.action = "add_comment" /\ (Missing(args.cardId) \/ Missing(args.comment))
    \/ args.action = "update_card" /\ Missing(args.cardId)
    \/ args.action = "create_card" /\ Missing(args.listId) /\ Missing(defaults.listId)

\* C34: moveCard without cardId or listId, addComment without cardId or
\* comment, updateCard without cardId and createCard without a supplied or
\* default list id fail without a remote request, in a direct call and in a
\* call a workflow makes; a completeTask run without cardId ends with
\* success = false, an empty ledger and no remote request.
C34_IdentifiersCheckedFirst ==
    /\ (response.settled /\ LacksIdentifier(request, trelloDefaults))
       => /\ response.reply.threw
          /\ response.reply.remote = <<>>
    /\ \A r \in LiveRuns :
          /\ \A i \in 1..Len(calls[r]) :
                (/\ calls[r][i].tool = "trello"
                 /\ calls[r][i].status # "inflight"
                 /\ LacksIdentifier(calls[r][i].args, trelloDefaults))
                => /\ calls[r][i].status = "threw"
                   /\ calls[r][i].reply.remote = <<>>
          /\ (/\ Done(r)
              /\ kind[r] = "completeTask"
              /\ Missing(params[r].cardId))
             => /\ ~outcome[r].success
                /\ outcome[r].results = <<>>
                /\ RemoteOf(calls[r]) = <<>>

\* A completeTask run without cardId has finished, and a direct moveCard
\* call with a card id and without a list id has been answered.
C34_Witness ==
    /\ \E r \in LiveRuns :
          /\ Done(r)
          /\ kind[r] = "completeTask"
          /\ params[r].cardId = UNDEF
          /\ Len(calls[r]) = 1
          /\ calls[r][1].status = "threw"
    /\ response.settled
    /\ request.action = "move_card"
    /\ request.cardId = <<"c","1">>
    /\ request.listId = UNDEF
    /\ response.reply.threw

====
